---- MODULE Spec2Model ----
(***************************************************************************)
(* Model of the trading bot's order pipeline: validators.py (OrderInput,   *)
(* validate_cli_input), client.py (BinanceClient over a requests session   *)
(* with a urllib3 Retry strategy), orders.py (OrderManager) and the place  *)
(* command of cli.py.                                                      *)
(*                                                                         *)
(* Python values are tagged records so that values of different Python     *)
(* types can be compared.  Strings that the code inspects character by     *)
(* character (symbol, side, order type, numerals in response bodies) are   *)
(* sequences of one-character strings; dictionary keys, messages and       *)
(* status words are atoms.                                                 *)
(***************************************************************************)
EXTENDS Integers, Sequences, FiniteSets, TLC

VARIABLES
    pc,       \* position of the single logical flow: "idle", "http", "done"
    cmd,      \* the entry point the caller invoked, with its arguments
    frames,   \* callers waiting for the request in flight, innermost first
    sent,     \* requests handed to the session during the running command
    calls,    \* the calls resumed so far: what each was given and what it gave
    result,   \* what the command handed back to its caller (value or exception)
    raw,      \* raw order fields given to validate_cli_input
    vres      \* what validate_cli_input returned (or raised) for raw

vars == <<pc, cmd, frames, sent, calls, result, raw, vres>>

-----------------------------------------------------------------------------
(* Python values *)

PyNone == [t |-> "none"]
PyStr(cs) == [t |-> "str", s |-> cs]
PyInt(n) == [t |-> "int", n |-> n]
PyBool(b) == [t |-> "bool", b |-> b]
PyList(items) == [t |-> "list", items |-> items]

RECURSIVE Pow10(_)
Pow10(k) == IF k = 0 THEN 1 ELSE 10 * Pow10(k - 1)

\* A float that is the nearest double of the decimal m * 10^-e; kept in lowest
\* terms (m not divisible by 10 unless e = 0) so that equal numbers are equal records.
RECURSIVE Normalize(_, _)
Normalize(m, e) ==
    IF e > 0 /\ m % 10 = 0 THEN Normalize(m \div 10, e - 1)
    ELSE [t |-> "float", m |-> m, e |-> e]

PyFloat(m, e) == Normalize(m, e)

IsNone(v) == v.t = "none"

\* bool(v): Python truth value
Truthy(v) ==
    CASE v.t = "none" -> FALSE
      [] v.t = "str" -> Len(v.s) > 0
      [] v.t = "int" -> v.n # 0
      [] v.t = "float" -> v.m # 0
      [] v.t = "bool" -> v.b
      [] v.t = "dict" -> Len(v.items) > 0
      [] v.t = "list" -> Len(v.items) > 0
      [] OTHER -> TRUE

-----------------------------------------------------------------------------
(* str methods and the symbol pattern *)

Lowercase == <<"a","b","c","d","e","f","g","h","i","j","k","l","m",
               "n","o","p","q","r","s","t","u","v","w","x","y","z">>
Uppercase == <<"A","B","C","D","E","F","G","H","I","J","K","L","M",
               "N","O","P","Q","R","S","T","U","V","W","X","Y","Z">>
Digits == <<"0","1","2","3","4","5","6","7","8","9">>
Whitespace == {" ", "\t", "\n"}

Range(s) == {s[i] : i \in DOMAIN s}

UpperChar(c) ==
    IF \E i \in DOMAIN Lowercase : Lowercase[i] = c
    THEN Uppercase[CHOOSE i \in DOMAIN Lowercase : Lowercase[i] = c]
    ELSE c

\* str.upper()
StrUpper(cs) == [i \in 1..Len(cs) |-> UpperChar(cs[i])]

\* str.strip()
StrStrip(cs) ==
    LET keep == {i \in 1..Len(cs) : cs[i] \notin Whitespace}
    IN IF keep = {} THEN <<>>
       ELSE LET lo == CHOOSE i \in keep : \A j \in keep : i <= j
                hi == CHOOSE i \in keep : \A j \in keep : j <= i
            IN SubSeq(cs, lo, hi)

SymbolMinLen == 3
SymbolMaxLen == 20

\* re.match(r"^[A-Z0-9]{3,20}$", v)
MatchesSymbolPattern(cs) ==
    /\ Len(cs) >= SymbolMinLen
    /\ Len(cs) <= SymbolMaxLen
    /\ \A i \in 1..Len(cs) : cs[i] \in Range(Uppercase) \cup Range(Digits)

-----------------------------------------------------------------------------
(* float arithmetic used by the validators *)

\* round(v, n) of a float: the decimal rounded to n places, ties to even
Round(v, n) ==
    IF v.e <= n THEN v
    ELSE LET k == Pow10(v.e - n)
             q == v.m \div k
             r == v.m % k
             up == (2 * r > k) \/ (2 * r = k /\ q % 2 = 1)
         IN PyFloat(IF up THEN q + 1 ELSE q, n)

-----------------------------------------------------------------------------
(* float(x) and the numerals it reads *)

DigitVal(c) == (CHOOSE i \in DOMAIN Digits : Digits[i] = c) - 1

RECURSIVE DigitsValue(_)
DigitsValue(ds) ==
    IF Len(ds) = 0 THEN 0
    ELSE 10 * DigitsValue(SubSeq(ds, 1, Len(ds) - 1)) + DigitVal(ds[Len(ds)])

Unsigned(cs) == IF Len(cs) > 0 /\ cs[1] \in {"-", "+"} THEN Tail(cs) ELSE cs

\* the plain decimal numerals: [sign] digits [. digits], at least one digit
IsNumeral(cs) ==
    LET body == Unsigned(cs)
        dots == {i \in 1..Len(body) : body[i] = "."}
    IN /\ Cardinality(dots) <= 1
       /\ Len(body) > Cardinality(dots)
       /\ \A i \in (1..Len(body)) \ dots : body[i] \in Range(Digits)

NumeralValue(cs) ==
    LET body == Unsigned(cs)
        dots == {i \in 1..Len(body) : body[i] = "."}
        ds == SelectSeq(body, LAMBDA c : c # ".")
        e == IF dots = {} THEN 0 ELSE Len(body) - (CHOOSE i \in dots : TRUE)
        m == DigitsValue(ds)
    IN PyFloat(IF Len(cs) > 0 /\ cs[1] = "-" THEN 0 - m ELSE m, e)

-----------------------------------------------------------------------------
(* exceptions and outcomes of a call *)

Ret(v) == [k |-> "ret", v |-> v]
Raise(exc) == [k |-> "raise", exc |-> exc]

\* a message is a sequence of parts; the empty string is the empty sequence
Part(text) == [text |-> text]
PartV(text, v) == [text |-> text, arg |-> v]

Exc(cls, msg) == [cls |-> cls, msg |-> msg]

\* the classes each exception class is an instance of
Bases(cls) ==
    CASE cls = "ValidationError" -> {"ValidationError", "ValueError", "Exception"}
      [] cls = "ValueError" -> {"ValueError", "Exception"}
      [] cls = "AttributeError" -> {"AttributeError", "Exception"}
      [] cls = "TypeError" -> {"TypeError", "Exception"}
      [] cls = "BinanceAPIError" -> {"BinanceAPIError", "Exception"}
      [] cls = "ConnectTimeout" ->
            {"ConnectTimeout", "Timeout", "ConnectionError", "RequestException", "Exception"}
      [] cls = "ReadTimeout" -> {"ReadTimeout", "Timeout", "RequestException", "Exception"}
      [] cls = "ConnectionError" -> {"ConnectionError", "RequestException", "Exception"}
      [] cls = "RetryError" -> {"RetryError", "RequestException", "Exception"}
      [] cls = "JSONDecodeError" ->
            {"JSONDecodeError", "RequestException", "ValueError", "Exception"}
      [] OTHER -> {cls, "Exception"}

IsInstance(exc, cls) == cls \in Bases(exc.cls)

float(v) ==
    CASE v.t = "float" -> Ret(v)
      [] v.t = "int" -> Ret(PyFloat(v.n, 0))
      [] v.t = "bool" -> Ret(PyFloat(IF v.b THEN 1 ELSE 0, 0))
      [] v.t = "quot" -> Ret(v)
      [] v.t = "str" ->
            IF IsNumeral(v.s) THEN Ret(NumeralValue(v.s))
            ELSE Raise(Exc("ValueError", <<PartV("could not convert string to float: ", v)>>))
      [] OTHER -> Raise(Exc("TypeError", <<Part("float() argument must be a string or a real number")>>))

-----------------------------------------------------------------------------
(* validators.py *)

BUY == <<"B","U","Y">>
SELL == <<"S","E","L","L">>
MARKET == <<"M","A","R","K","E","T">>
LIMIT == <<"L","I","M","I","T">>
STOP_LIMIT == <<"S","T","O","P","_","L","I","M","I","T">>

OrderSide == <<BUY, SELL>>
OrderType == <<MARKET, LIMIT, STOP_LIMIT>>

\* Enum(value): lookup of a member by value
EnumLookup(enum, v) ==
    IF v \in Range(enum) THEN Ret(v)
    ELSE Raise(Exc("ValueError", <<PartV("is not a valid member: ", PyStr(v))>>))

\* a field's check: the validated value, or the error it adds
Ok(v) == [ok |-> TRUE, v |-> v]
Bad(text) == [ok |-> FALSE, err |-> Part(text)]

QuantityPlaces == 6
PricePlaces == 8

\* validate_symbol with .strip() left out
ValidateSymbolUnstripped(v) ==
    IF ~Truthy(v) THEN Bad("Symbol cannot be empty")
    ELSE IF ~MatchesSymbolPattern(StrUpper(v.s)) THEN Bad("Invalid symbol format")
    ELSE Ok(PyStr(StrUpper(v.s)))

validate_symbol(v) ==
    IF ~Truthy(v) THEN Bad("Symbol cannot be empty")
    ELSE LET u == StrStrip(StrUpper(v.s))
         IN IF ~MatchesSymbolPattern(u) THEN Bad("Invalid symbol format")
            ELSE Ok(PyStr(u))

\* validate_quantity rounding to the places of a price
ValidateQuantityPricePlaces(v) ==
    IF v.m <= 0 THEN Bad("Quantity must be positive")
    ELSE IF Round(v, PricePlaces) # v THEN Bad("Quantity has too many decimal places")
    ELSE Ok(v)

\* validate_quantity returning the quantity rounded to two places
ValidateQuantityRounding(v) ==
    IF v.m <= 0 THEN Bad("Quantity must be positive")
    ELSE Ok(Round(v, 2))

validate_quantity(v) ==
    IF v.m <= 0 THEN Bad("Quantity must be positive")
    ELSE IF Round(v, QuantityPlaces) # v THEN Bad("Quantity has too many decimal places")
    ELSE Ok(v)

\* validate_price with `v < 0` for `v <= 0`
ValidatePriceAllowingZero(v) ==
    IF ~IsNone(v)
    THEN IF v.m < 0 THEN Bad("Price must be positive")
         ELSE IF Round(v, PricePlaces) # v THEN Bad("Price has too many decimal places")
         ELSE Ok(v)
    ELSE Ok(v)

validate_price(v) ==
    IF ~IsNone(v)
    THEN IF v.m <= 0 THEN Bad("Price must be positive")
         ELSE IF Round(v, PricePlaces) # v THEN Bad("Price has too many decimal places")
         ELSE Ok(v)
    ELSE Ok(v)

validate_stop_price(v) ==
    IF ~IsNone(v)
    THEN IF v.m <= 0 THEN Bad("Stop price must be positive")
         ELSE Ok(v)
    ELSE Ok(v)

\* the after-validator with the stop price check of STOP_LIMIT left out
RequirementsWithoutStopCheck(self) ==
    IF self.order_type \in {LIMIT, STOP_LIMIT} /\ IsNone(self.price)
    THEN <<Part("orders require a price")>>
    ELSE <<>>

\* the after-validator refusing a price or stop price given with MARKET
RequirementsRefusingExtras(self) ==
    IF self.order_type = MARKET /\ (~IsNone(self.price) \/ ~IsNone(self.stop_price))
    THEN <<Part("MARKET orders take no price")>>
    ELSE IF self.order_type = LIMIT /\ IsNone(self.price)
    THEN <<Part("LIMIT orders require a price")>>
    ELSE IF self.order_type = STOP_LIMIT /\ IsNone(self.price)
    THEN <<Part("STOP_LIMIT orders require a limit price")>>
    ELSE IF self.order_type = STOP_LIMIT /\ IsNone(self.stop_price)
    THEN <<Part("STOP_LIMIT orders require a stop price")>>
    ELSE <<>>

\* the after-validator of the model: the error it raises, or none
validate_order_requirements(self) ==
    IF self.order_type = LIMIT /\ IsNone(self.price)
    THEN <<Part("LIMIT orders require a price")>>
    ELSE IF self.order_type = STOP_LIMIT
         THEN IF IsNone(self.price)
              THEN <<Part("STOP_LIMIT orders require a limit price")>>
              ELSE IF IsNone(self.stop_price)
                   THEN <<Part("STOP_LIMIT orders require a stop price")>>
                   ELSE <<>>
         ELSE <<>>

\* pydantic's conversion of an input to the field's declared type (lax mode),
\* followed by the field's validator when the conversion succeeded
StrField(v) ==
    IF v.t = "str" THEN Ok(v) ELSE Bad("Input should be a valid string")

FloatField(v) ==
    IF v.t \in {"float", "int", "bool", "str"} /\ float(v).k = "ret"
    THEN Ok(float(v).v)
    ELSE Bad("Input should be a valid number")

OptionalFloatField(v) == IF IsNone(v) THEN Ok(v) ELSE FloatField(v)

\* the four validated fields: conversion, then the field's validator
SymbolField(v) == IF StrField(v).ok THEN validate_symbol(StrField(v).v) ELSE StrField(v)

QuantityField(v) ==
    IF FloatField(v).ok THEN validate_quantity(FloatField(v).v) ELSE FloatField(v)

PriceField(v) ==
    IF OptionalFloatField(v).ok THEN validate_price(OptionalFloatField(v).v)
    ELSE OptionalFloatField(v)

StopPriceField(v) ==
    IF OptionalFloatField(v).ok THEN validate_stop_price(OptionalFloatField(v).v)
    ELSE OptionalFloatField(v)

ErrorsOf(checks) ==
    LET bad == SelectSeq(checks, LAMBDA c : ~c.ok)
    IN [i \in 1..Len(bad) |-> bad[i].err]

\* OrderInput(symbol=..., side=..., ...): all field errors are collected; the
\* after-validator runs only when every field passed
OrderInput(symbol, side, order_type, quantity, price, stop_price) ==
    LET s == SymbolField(symbol)
        q == QuantityField(quantity)
        p == PriceField(price)
        sp == StopPriceField(stop_price)
        errs == ErrorsOf(<<s, q, p, sp>>)
    IN IF errs # <<>> THEN Raise(Exc("ValidationError", errs))
       ELSE LET self == [t |-> "OrderInput", symbol |-> s.v, side |-> side,
                         order_type |-> order_type, quantity |-> q.v,
                         price |-> p.v, stop_price |-> sp.v]
                cross == validate_order_requirements(self)
            IN IF cross # <<>> THEN Raise(Exc("ValidationError", cross))
               ELSE Ret(self)

\* the call with .upper() left out
CallWithoutUpper(v) ==
    IF v.t = "str" THEN Ret(v.s)
    ELSE Raise(Exc("AttributeError", <<Part("object has no attribute 'upper'")>>))

\* x.upper() of an object that may not be a str
CallUpper(v) ==
    IF v.t = "str" THEN Ret(StrUpper(v.s))
    ELSE Raise(Exc("AttributeError", <<Part("object has no attribute 'upper'")>>))

Tuple2(order, error) == [order |-> order, error |-> PyStr(error)]

\* the body of the outer try of validate_cli_input
ValidateCliBody(symbol, side, order_type, quantity, price, stop_price) ==
    LET su == CallUpper(side) IN
    IF su.k = "raise" THEN su
    ELSE IF EnumLookup(OrderSide, su.v).k = "raise"
    THEN Ret(Tuple2(PyNone, <<PartV("Invalid side: ", side),
                              PartV("Valid options are: ", PyList(OrderSide))>>))
    ELSE LET tu == CallUpper(order_type) IN
    IF tu.k = "raise" THEN tu
    ELSE IF EnumLookup(OrderType, tu.v).k = "raise"
    THEN Ret(Tuple2(PyNone, <<PartV("Invalid order type: ", order_type),
                              PartV("Valid options are: ", PyList(OrderType))>>))
    ELSE LET o == OrderInput(symbol, su.v, tu.v, quantity, price, stop_price)
         IN IF o.k = "raise" THEN o ELSE Ret(Tuple2(o.v, <<>>))

\* the except clauses with `except Exception` left out
HandlersOfValueErrorOnly(out) ==
    IF out.k = "ret" THEN out
    ELSE IF IsInstance(out.exc, "ValueError") THEN Ret(Tuple2(PyNone, out.exc.msg))
    ELSE out

\* the except clauses of the outer try
ValidateCliHandlers(out) ==
    IF out.k = "ret" THEN out
    ELSE IF IsInstance(out.exc, "ValueError") THEN Ret(Tuple2(PyNone, out.exc.msg))
    ELSE IF IsInstance(out.exc, "Exception")
         THEN Ret(Tuple2(PyNone, <<Part("Unexpected validation error: ")>> \o out.exc.msg))
    ELSE out

validate_cli_input(symbol, side, order_type, quantity, price, stop_price) ==
    ValidateCliHandlers(
        ValidateCliBody(symbol, side, order_type, quantity, price, stop_price))

-----------------------------------------------------------------------------
(* dict: insertion-ordered items with unique keys *)

Item(k, v) == [k |-> k, v |-> v]
PyDict(items) == [t |-> "dict", items |-> items]
EmptyDict == PyDict(<<>>)

Keys(d) == {d.items[i].k : i \in DOMAIN d.items}
HasKey(d, k) == k \in Keys(d)
IndexOf(d, k) == CHOOSE i \in DOMAIN d.items : d.items[i].k = k

\* d[k] = v: an existing key keeps its position
DictSet(d, k, v) ==
    IF HasKey(d, k)
    THEN PyDict([d.items EXCEPT ![IndexOf(d, k)] = Item(k, v)])
    ELSE PyDict(Append(d.items, Item(k, v)))

\* d.get(k, default)
DictGet(d, k, default) == IF HasKey(d, k) THEN d.items[IndexOf(d, k)].v ELSE default

\* x.get(k, default) of an object that may not be a dict
CallGet(x, k, default) ==
    IF x.t = "dict" THEN Ret(DictGet(x, k, default))
    ELSE Raise(Exc("AttributeError", <<Part("object has no attribute 'get'")>>))

\* the parameter names the client uses, in ascending byte order
KeyOrder == <<"leverage", "limit", "orderId", "price", "quantity", "recvWindow",
              "reduceOnly", "side", "signature", "stopPrice", "symbol",
              "timeInForce", "timestamp", "type">>

KeyRank(k) == CHOOSE i \in DOMAIN KeyOrder : KeyOrder[i] = k

\* sorted(params.items())
RECURSIVE SortedItems(_)
SortedItems(items) ==
    IF Len(items) = 0 THEN <<>>
    ELSE LET i == CHOOSE i \in DOMAIN items :
                      \A j \in DOMAIN items : KeyRank(items[i].k) <= KeyRank(items[j].k)
         IN <<items[i]>> \o
            SortedItems(SubSeq(items, 1, i - 1) \o SubSeq(items, i + 1, Len(items)))

-----------------------------------------------------------------------------
(* str(value) as f"{key}={value}" writes it *)

RECURSIVE NatStr(_)
NatStr(n) ==
    IF n < 10 THEN <<Digits[n + 1]>>
    ELSE NatStr(n \div 10) \o <<Digits[(n % 10) + 1]>>

IntStr(n) == IF n < 0 THEN <<"-">> \o NatStr(0 - n) ELSE NatStr(n)

RECURSIVE Zeros(_)
Zeros(k) == IF k <= 0 THEN <<>> ELSE <<"0">> \o Zeros(k - 1)

\* repr of a float in the range where Python writes it positionally
FloatStr(v) ==
    LET a == IF v.m < 0 THEN 0 - v.m ELSE v.m
        whole == a \div Pow10(v.e)
        frac == a % Pow10(v.e)
        fs == IF v.e = 0 THEN <<"0">>
              ELSE Zeros(v.e - Len(NatStr(frac))) \o NatStr(frac)
    IN (IF v.m < 0 THEN <<"-">> ELSE <<>>) \o NatStr(whole) \o <<".">> \o fs

Str(v) ==
    CASE v.t = "str" -> v.s
      [] v.t = "int" -> IntStr(v.n)
      [] v.t = "float" -> FloatStr(v)
      [] v.t = "bool" -> IF v.b THEN <<"True">> ELSE <<"False">>
      [] v.t = "none" -> <<"None">>
      [] v.t = "hmac" -> <<"hmac(">> \o v.msg \o <<")">>
      [] OTHER -> <<"?">>

-----------------------------------------------------------------------------
(* client.py: configuration, signature, request construction *)

ApiKey == PyStr(<<"API_KEY">>)
ApiSecret == PyStr(<<"API_SECRET">>)
BaseUrl == <<"https://testnet.binancefuture.com">>

RecvWindow == 5000

RECURSIVE JoinPairs(_)
JoinPairs(items) ==
    IF Len(items) = 0 THEN <<>>
    ELSE <<items[1].k, "=">> \o Str(items[1].v) \o
         (IF Len(items) = 1 THEN <<>> ELSE <<"&">> \o JoinPairs(Tail(items)))

\* the join with sorted() left out
QueryStringUnsorted(params) == JoinPairs(params.items)

\* "&".join(f"{key}={value}" for key, value in sorted(params.items()))
QueryString(params) == JoinPairs(SortedItems(params.items))

\* hmac.new(secret, msg, sha256).hexdigest(): a value determined by key and message,
\* different for different keys or messages
Hmac(key, msg) == [t |-> "hmac", key |-> key, msg |-> msg]

_generate_signature(params) == Hmac(ApiSecret, QueryString(params))

\* `params or {}`
OrEmpty(params) == IF Truthy(params) THEN params ELSE EmptyDict

\* _make_request up to the session call: the parameters and headers it builds
SignedParams(params, ts) ==
    LET p1 == DictSet(params, "timestamp", PyInt(ts))
        p2 == DictSet(p1, "recvWindow", PyInt(RecvWindow))
    IN DictSet(p2, "signature", _generate_signature(p2))

\* what was handed to _generate_signature: recorded with the request
SignedInput(params, ts) ==
    DictSet(DictSet(params, "timestamp", PyInt(ts)), "recvWindow", PyInt(RecvWindow))

\* headers that carry the secret next to the key
HeadersWithSecret ==
    PyDict(<<Item("X-MBX-APIKEY", ApiKey), Item("X-MBX-SECRET", ApiSecret),
             Item("Content-Type", PyStr(<<"application/x-www-form-urlencoded">>))>>)

Headers ==
    PyDict(<<Item("X-MBX-APIKEY", ApiKey),
             Item("Content-Type", PyStr(<<"application/x-www-form-urlencoded">>))>>)

SupportedMethods == {"GET", "POST", "DELETE"}

RetryTotal == 3

\* no response or failure has ended the request yet
NoAnswer == [kind |-> "none"]

BuildRequest(method, endpoint, params, signed, ts) ==
    [method |-> method,
     url |-> BaseUrl \o <<endpoint>>,
     endpoint |-> endpoint,
     signed |-> signed,
     params |-> IF signed THEN SignedParams(OrEmpty(params), ts) ELSE OrEmpty(params),
     signed_input |-> IF signed THEN SignedInput(OrEmpty(params), ts) ELSE PyNone,
     headers |-> Headers,
     attempts |-> 0,
     retry_total |-> RetryTotal,
     only503 |-> TRUE,
     first |-> NoAnswer,
     answer |-> NoAnswer]

\* what _generate_signature and _make_request write to the log for a request
RequestLog(req) ==
    (IF req.signed
     THEN <<PartV("Generated signature for params: ", req.signed_input)>> ELSE <<>>)
    \o <<PartV("Making request to ", PyStr(<<req.method, " ", req.endpoint>>)),
          PartV("Request params: ", req.params)>>

\* a call either waits for the network (Io: the request it handed to the session)
\* or has finished (Local: what it returned or raised); frames are the callers
\* still to be resumed with its answer, innermost first
Io(req) == [k |-> "io", req |-> req, frames |-> <<>>]
Local(out) == [k |-> "local", out |-> out, frames |-> <<>>]

\* _make_request handing every method to the session
MakeRequestAnyMethod(method, endpoint, params, signed, ts) ==
    Io(BuildRequest(method, endpoint, params, signed, ts))

\* _make_request: either the session is called, or the method is refused
_make_request(method, endpoint, params, signed, ts) ==
    IF method \in SupportedMethods
    THEN Io(BuildRequest(method, endpoint, params, signed, ts))
    ELSE Local(Raise(Exc("ValueError",
                         <<PartV("Unsupported HTTP method: ", PyStr(<<method>>))>>)))

-----------------------------------------------------------------------------
(* the session: HTTPAdapter(max_retries=Retry(total=3, backoff_factor=1, ...)) *)

AllowedMethods == {"HEAD", "GET", "OPTIONS", "POST", "PUT", "DELETE"}
StatusForcelist == {429, 500, 502, 503, 504}

\* what one HTTP attempt can meet
Response(status, body, json_error) ==
    [kind |-> "response", status |-> status, body |-> body, json_error |-> json_error]
Failure(kind) == [kind |-> kind]

\* a retry policy that also retries every status of 400 and above
RetryableOnAnyError(req, o) ==
    IF o.kind = "response"
    THEN req.method \in AllowedMethods /\ (o.status \in StatusForcelist \/ o.status >= 400)
    ELSE TRUE

\* Retry.is_retry for a response; a failed connection or read is always retried
Retryable(req, o) ==
    IF o.kind = "response"
    THEN req.method \in AllowedMethods /\ o.status \in StatusForcelist
    ELSE TRUE

\* Retry.increment: one retry is used up
Increment(total) == total - 1

\* Retry.is_exhausted
IsExhausted(total) == total < 0

\* what is kept of the first attempt: the status of its response, or that it failed
Met(o) == IF o.kind = "response" THEN [kind |-> "response", status |-> o.status]
          ELSE [kind |-> "failure"]

\* the request after one more attempt met o
AfterAttempt(req, o) ==
    [req EXCEPT !.attempts = @ + 1,
                !.first = IF req.attempts = 0 THEN Met(o) ELSE @,
                !.only503 = IF o.kind = "response" THEN @ /\ o.status = 503 ELSE FALSE,
                !.retry_total = IF Retryable(req, o) THEN Increment(@) ELSE @]

\* the request after its last attempt met o: o is what the session call ends with
LastAttempt(req, o) == [AfterAttempt(req, o) EXCEPT !.answer = o]

\* the attempt is followed by a backoff sleep and another attempt
WillRetry(req, o) == Retryable(req, o) /\ ~IsExhausted(AfterAttempt(req, o).retry_total)

\* what session.get/post/delete gives once no further attempt is made:
\* MaxRetryError is turned into the requests exception by its reason
SessionOutcome(req, o) ==
    IF ~Retryable(req, o) THEN Ret(o)
    ELSE CASE o.kind = "response" ->
                Raise(Exc("RetryError", <<Part("Max retries exceeded: too many error responses")>>))
           [] o.kind = "connect_timeout" ->
                Raise(Exc("ConnectTimeout", <<Part("Max retries exceeded: connect timed out")>>))
           [] o.kind = "read_timeout" ->
                Raise(Exc("ConnectionError", <<Part("Max retries exceeded: read timed out")>>))
           [] OTHER ->
                Raise(Exc("ConnectionError", <<Part("Max retries exceeded: connection failed")>>))

-----------------------------------------------------------------------------
(* client.py: BinanceAPIError and the classification of what the session gave *)

ApiError(message, code, response) ==
    [cls |-> "BinanceAPIError", msg |-> message, code |-> code,
     response |-> OrEmpty(response)]

\* the text of a str value used as a message
MsgOf(v) == <<PartV("", v)>>

\* BinanceAPIError.__str__
ApiErrorStr(e) ==
    IF Truthy(e.code)
    THEN <<PartV("Binance API Error [", e.code), Part("]: ")>> \o e.msg
    ELSE <<Part("Binance API Error: ")>> \o e.msg

\* str(e)
ExcStr(e) == IF e.cls = "BinanceAPIError" THEN ApiErrorStr(e) ELSE e.msg

HttpOk == 200

\* the classification with no fallback to the HTTP status for a missing code
ClassifyWithoutFallback(resp) ==
    IF resp.body.t = "notjson" THEN Raise(Exc(resp.json_error, <<Part("Expecting value")>>))
    ELSE IF resp.status # HttpOk
    THEN LET code == CallGet(resp.body, "code", PyNone)
             msg == CallGet(resp.body, "msg", PyStr(<<"Unknown error">>))
         IN IF code.k = "raise" THEN code
            ELSE Raise(ApiError(MsgOf(msg.v), code.v, resp.body))
    ELSE Ret(resp.body)

\* the try body of _make_request after the session call returned a response
ClassifyResponse(resp) ==
    IF resp.body.t = "notjson" THEN Raise(Exc(resp.json_error, <<Part("Expecting value")>>))
    ELSE IF resp.status # HttpOk
    THEN LET code == CallGet(resp.body, "code", PyInt(resp.status))
             msg == CallGet(resp.body, "msg", PyStr(<<"Unknown error">>))
         IN IF code.k = "raise" THEN code
            ELSE Raise(ApiError(MsgOf(msg.v), code.v, resp.body))
    ELSE Ret(resp.body)

\* the except clauses giving a timeout the HTTP code 408
HandlersWithTimeoutCode(out) ==
    IF out.k = "ret" THEN out
    ELSE IF IsInstance(out.exc, "Timeout")
    THEN Raise(ApiError(<<Part("Request timed out. Please check your network connection.")>>,
                        PyInt(408), PyNone))
    ELSE IF IsInstance(out.exc, "ConnectionError")
    THEN Raise(ApiError(<<Part("Failed to connect to Binance API. Please check your network.")>>,
                        PyNone, PyNone))
    ELSE IF IsInstance(out.exc, "RequestException")
    THEN Raise(ApiError(<<Part("Network error: ")>> \o ExcStr(out.exc), PyNone, PyNone))
    ELSE out

\* the except clauses of _make_request
MakeRequestHandlers(out) ==
    IF out.k = "ret" THEN out
    ELSE IF IsInstance(out.exc, "Timeout")
    THEN Raise(ApiError(<<Part("Request timed out. Please check your network connection.")>>,
                        PyNone, PyNone))
    ELSE IF IsInstance(out.exc, "ConnectionError")
    THEN Raise(ApiError(<<Part("Failed to connect to Binance API. Please check your network.")>>,
                        PyNone, PyNone))
    ELSE IF IsInstance(out.exc, "RequestException")
    THEN Raise(ApiError(<<Part("Network error: ")>> \o ExcStr(out.exc), PyNone, PyNone))
    ELSE out

\* what _make_request returns or raises, given what the session call gave
MakeRequestFinish(sess) ==
    MakeRequestHandlers(IF sess.k = "ret" THEN ClassifyResponse(sess.v) ELSE sess)

-----------------------------------------------------------------------------
(* client.py: one method per exchange operation *)

Frame(fn, args) == [fn |-> fn, args |-> args]

\* a call made on behalf of the frame fr: fr resumes when the call is answered
Within(call, fr) == [call EXCEPT !.frames = @ \o <<fr>>]

WithSymbol(symbol) ==
    IF Truthy(symbol) THEN DictSet(EmptyDict, "symbol", PyStr(StrUpper(symbol.s)))
    ELSE EmptyDict

get_exchange_info(symbol, ts) ==
    _make_request("GET", "/fapi/v1/exchangeInfo", WithSymbol(symbol), FALSE, ts)

get_account_info(ts) == _make_request("GET", "/fapi/v2/account", PyNone, TRUE, ts)

get_balance(asset, ts) ==
    Within(get_account_info(ts), Frame("client.get_balance", [asset |-> asset]))

RECURSIVE FirstAsset(_, _)
FirstAsset(assets, asset) ==
    IF Len(assets) = 0
    THEN Ret(PyDict(<<Item("asset", asset),
                      Item("availableBalance", PyStr(<<"0">>)),
                      Item("totalBalance", PyStr(<<"0">>))>>))
    ELSE LET a == CallGet(assets[1], "asset", PyNone)
         IN IF a.k = "raise" THEN a
            ELSE IF a.v = asset THEN Ret(assets[1])
            ELSE FirstAsset(Tail(assets), asset)

\* get_balance after get_account_info answered
GetBalanceResume(args, out) ==
    IF out.k = "raise" THEN Local(out)
    ELSE LET assets == CallGet(out.v, "assets", PyList(<<>>))
         IN IF assets.k = "raise" THEN Local(assets)
            ELSE Local(FirstAsset(assets.v.items, args.asset))

client_set_leverage(symbol, leverage, ts) ==
    _make_request("POST", "/fapi/v1/leverage",
                  PyDict(<<Item("symbol", PyStr(StrUpper(symbol.s))),
                           Item("leverage", leverage)>>), TRUE, ts)

get_position_info(symbol, ts) ==
    _make_request("GET", "/fapi/v2/positionRisk", WithSymbol(symbol), TRUE, ts)

STOP == <<"S","T","O","P">>

\* the price test with STOP left out of the list
RequiresPriceLimitOnly(type) == type = LIMIT

\* order_type.upper() in ["LIMIT", "STOP"]
RequiresPrice(type) == type \in {LIMIT, STOP}

\* order_type.upper() == "STOP"
RequiresStopPrice(type) == type = STOP

client_place_order(symbol, side, order_type, quantity, price, stop_price, time_in_force, reduce_only, ts) ==
    LET type == StrUpper(order_type.s)
        p0 == PyDict(<<Item("symbol", PyStr(StrUpper(symbol.s))),
                       Item("side", PyStr(StrUpper(side.s))),
                       Item("type", PyStr(type)),
                       Item("quantity", quantity)>>)
        p1 == IF reduce_only THEN DictSet(p0, "reduceOnly", PyStr(<<"true">>)) ELSE p0
        p2 == IF type # MARKET THEN DictSet(p1, "timeInForce", time_in_force) ELSE p1
        needsPrice == RequiresPrice(type)
        needsStop == RequiresStopPrice(type)
        p3 == IF needsPrice THEN DictSet(p2, "price", price) ELSE p2
        p4 == IF needsStop THEN DictSet(p3, "stopPrice", stop_price) ELSE p3
    IN IF needsPrice /\ IsNone(price)
       THEN Local(Raise(ApiError(
                <<PartV("Price is required for orders of type ", order_type)>>,
                PyNone, PyNone)))
       ELSE IF needsStop /\ IsNone(stop_price)
       THEN Local(Raise(ApiError(<<Part("Stop price is required for STOP orders")>>,
                                 PyNone, PyNone)))
       ELSE _make_request("POST", "/fapi/v1/order", p4, TRUE, ts)

client_cancel_order(symbol, order_id, ts) ==
    LET p0 == PyDict(<<Item("symbol", PyStr(StrUpper(symbol.s)))>>)
    IN IF Truthy(order_id)
       THEN _make_request("DELETE", "/fapi/v1/order", DictSet(p0, "orderId", order_id), TRUE, ts)
       ELSE Local(Raise(ApiError(<<Part("Order ID is required")>>, PyNone, PyNone)))

get_order(symbol, order_id, ts) ==
    _make_request("GET", "/fapi/v1/order",
                  PyDict(<<Item("symbol", PyStr(StrUpper(symbol.s))),
                           Item("orderId", order_id)>>), TRUE, ts)

client_get_open_orders(symbol, ts) ==
    _make_request("GET", "/fapi/v1/openOrders", WithSymbol(symbol), TRUE, ts)

\* test_connection: the public endpoint first
test_connection(ts) ==
    Within(get_exchange_info(PyNone, ts),
           Frame("client.test_connection", [stage |-> "public"]))

\* test_connection going on to the private endpoint whatever the public one gave
TestConnectionIgnoringPublic(args, out, ts) ==
    IF args.stage = "public"
    THEN Within(get_account_info(ts),
                Frame("client.test_connection", [stage |-> "private"]))
    ELSE IF out.k = "raise" THEN Local(Ret(PyBool(FALSE)))
    ELSE Local(Ret(PyBool(TRUE)))

\* test_connection after a call was answered: the private endpoint second
TestConnectionResume(args, out, ts) ==
    IF out.k = "raise" THEN Local(Ret(PyBool(FALSE)))
    ELSE IF args.stage = "public"
    THEN Within(get_account_info(ts),
                Frame("client.test_connection", [stage |-> "private"]))
    ELSE Local(Ret(PyBool(TRUE)))

-----------------------------------------------------------------------------
(* orders.py: OrderResult and the error table *)

OrderResult(success, order_id, symbol, status, executed_qty, avg_price, message, raw_response) ==
    [t |-> "OrderResult", success |-> success, order_id |-> order_id,
     symbol |-> symbol, status |-> status, executed_qty |-> executed_qty,
     avg_price |-> avg_price, message |-> PyStr(message),
     raw_response |-> raw_response]

\* error_messages of _format_api_error
ErrorCodes == {-2010, -1100, -1101, -1102, -1103, -1104, -1105, -2011, -2012, -2013,
               -2014, -2015, -2026, -4000, -4001, -4002, -4003, -4004, -4005, -4014,
               -4015, -4046, -4061, -4062}

ErrorMessage(code) ==
    CASE code = -2010 -> "Insufficient balance for this order."
      [] code = -1100 -> "Invalid character in request parameter."
      [] code = -1101 -> "Too many parameters in request."
      [] code = -1102 -> "Missing required parameter."
      [] code = -1103 -> "Unknown parameter in request."
      [] code = -1104 -> "Duplicate parameter in request."
      [] code = -1105 -> "Empty parameter value."
      [] code = -2011 -> "Unknown order sent."
      [] code = -2012 -> "Order is already cancelled."
      [] code = -2013 -> "Order does not exist."
      [] code = -2014 -> "API key format invalid."
      [] code = -2015 -> "Invalid API key, IP, or permission."
      [] code = -2026 -> "Order cost exceeds account balance."
      [] code = -4000 -> "Invalid price or quantity precision."
      [] code = -4001 -> "Price is not within valid range."
      [] code = -4002 -> "Quantity is below minimum."
      [] code = -4003 -> "Quantity exceeds maximum."
      [] code = -4004 -> "Invalid order type."
      [] code = -4005 -> "Invalid side parameter."
      [] code = -4014 -> "Price is too high or too low."
      [] code = -4015 -> "Stop price is too high or too low."
      [] code = -4046 -> "No need to change leverage (already set)."
      [] code = -4061 -> "Order type requires stop price."
      [] code = -4062 -> "Stop price invalid."

\* the formatting with the table of known codes left out
FormatWithoutTable(error) ==
    IF Truthy(error.code)
    THEN error.msg \o <<PartV(" (Code: ", error.code)>>
    ELSE error.msg

_format_api_error(error) ==
    IF error.code.t = "int" /\ error.code.n \in ErrorCodes
    THEN <<Part(ErrorMessage(error.code.n)), PartV(" (Code: ", error.code)>>
    ELSE IF Truthy(error.code)
    THEN error.msg \o <<PartV(" (Code: ", error.code)>>
    ELSE error.msg

-----------------------------------------------------------------------------
(* orders.py: OrderManager.  Each operation is its client call followed by   *)
(* the rest of its try body and its except clauses.                          *)

\* a mapping that falls back to MARKET for a type it does not list
OrderTypeMapWithFallback(order_type) ==
    CASE order_type = MARKET -> PyStr(MARKET)
      [] order_type = LIMIT -> PyStr(LIMIT)
      [] order_type = STOP_LIMIT -> PyStr(STOP)
      [] OTHER -> PyStr(MARKET)

\* order_type_map.get(order_type)
OrderTypeMap(order_type) ==
    CASE order_type = MARKET -> PyStr(MARKET)
      [] order_type = LIMIT -> PyStr(LIMIT)
      [] order_type = STOP_LIMIT -> PyStr(STOP)
      [] OTHER -> PyNone

Positive(v) == v.m > 0

\* cum_quote / executed_qty
Quot(num, den) == [t |-> "quot", num |-> num, den |-> den]

\* avg_price=float(avg_price) if avg_price else None, and the result
PlaceOrderResult(order_input, response, order_id, status, executed_qty, avg) ==
    IF avg.k = "raise" THEN avg
    ELSE Ret(OrderResult(TRUE, order_id, order_input.symbol, status, executed_qty, avg.v,
                         <<Part("Order placed successfully")>>, response))

FloatOrNone(v) == IF Truthy(v) THEN float(v) ELSE Ret(PyNone)

\* the average price computed as executed_qty / cum_quote
PlaceOrderAverageInverted(order_input, response, order_id, status, executed_qty, cum_quote) ==
    IF cum_quote.k = "raise" THEN cum_quote
    ELSE PlaceOrderResult(order_input, response, order_id, status, executed_qty,
             FloatOrNone(IF Positive(cum_quote.v) THEN Quot(executed_qty, cum_quote.v)
                         ELSE DictGet(response, "avgPrice", PyNone)))

\* the average price when the response gave none: cum_quote / executed_qty
PlaceOrderAverage(order_input, response, order_id, status, executed_qty, cum_quote) ==
    IF cum_quote.k = "raise" THEN cum_quote
    ELSE PlaceOrderResult(order_input, response, order_id, status, executed_qty,
             FloatOrNone(IF Positive(cum_quote.v) THEN Quot(cum_quote.v, executed_qty)
                         ELSE DictGet(response, "avgPrice", PyNone)))

PlaceOrderParsed(order_input, response, order_id, executed_qty) ==
    IF order_id.k = "raise" THEN order_id
    ELSE IF executed_qty.k = "raise" THEN executed_qty
    ELSE IF ~Truthy(DictGet(response, "avgPrice", PyNone)) /\ Positive(executed_qty.v)
    THEN PlaceOrderAverage(order_input, response, order_id.v,
                           DictGet(response, "status", PyStr(<<"UNKNOWN">>)),
                           executed_qty.v,
                           float(DictGet(response, "cumQuote", PyInt(0))))
    ELSE PlaceOrderResult(order_input, response, order_id.v,
                          DictGet(response, "status", PyStr(<<"UNKNOWN">>)),
                          executed_qty.v,
                          FloatOrNone(DictGet(response, "avgPrice", PyNone)))

\* the try body of place_order after the client call returned
PlaceOrderBody(order_input, out) ==
    IF out.k = "raise" THEN out
    ELSE IF out.v.t # "dict" THEN CallGet(out.v, "orderId", PyNone)
    ELSE PlaceOrderParsed(order_input, out.v, CallGet(out.v, "orderId", PyNone),
                          float(DictGet(out.v, "executedQty", PyInt(0))))

\* the except clauses of place_order
PlaceOrderHandlers(order_input, out) ==
    IF out.k = "ret" THEN out
    ELSE IF IsInstance(out.exc, "BinanceAPIError")
    THEN Ret(OrderResult(FALSE, PyNone, order_input.symbol, PyNone, PyNone, PyNone,
                         _format_api_error(out.exc), out.exc.response))
    ELSE IF IsInstance(out.exc, "Exception")
    THEN Ret(OrderResult(FALSE, PyNone, order_input.symbol, PyNone, PyNone, PyNone,
                         <<Part("Unexpected error: ")>> \o ExcStr(out.exc), PyNone))
    ELSE out

\* place_order trying the client once more after a BinanceAPIError
PlaceOrderTryingAgain(args, out) ==
    IF out.k = "raise" /\ IsInstance(out.exc, "BinanceAPIError") /\ "again" \notin DOMAIN args
    THEN [client_place_order(args.order_input.symbol, PyStr(args.order_input.side),
                             OrderTypeMap(args.order_input.order_type),
                             args.order_input.quantity, args.order_input.price,
                             args.order_input.stop_price, PyStr(<<"GTC">>), FALSE, 1)
            EXCEPT !.frames = @ \o <<[fn |-> "mgr.place_order",
                                      args |-> [order_input |-> args.order_input,
                                                again |-> TRUE]]>>]
    ELSE Local(PlaceOrderHandlers(args.order_input, PlaceOrderBody(args.order_input, out)))

PlaceOrderResume(args, out) ==
    Local(PlaceOrderHandlers(args.order_input, PlaceOrderBody(args.order_input, out)))

place_order(order_input, ts) ==
    LET binance_order_type == OrderTypeMap(order_input.order_type)
    IN IF ~Truthy(binance_order_type)
       THEN Local(Ret(OrderResult(FALSE, PyNone, PyNone, PyNone, PyNone, PyNone,
                                  <<PartV("Unsupported order type: ",
                                          PyStr(order_input.order_type))>>, PyNone)))
       ELSE Within(client_place_order(order_input.symbol, PyStr(order_input.side),
                                      binance_order_type, order_input.quantity,
                                      order_input.price, order_input.stop_price,
                                      PyStr(<<"GTC">>), FALSE, ts),
                   Frame("mgr.place_order", [order_input |-> order_input]))

ErrorDict(e) == PyDict(<<Item("error", PyStr(ExcStr(e)))>>)
FailureDict(e) ==
    PyDict(<<Item("success", PyBool(FALSE)), Item("error", PyStr(ExcStr(e)))>>)

GetOrderStatusResume(args, out) ==
    IF out.k = "ret" THEN Local(out)
    ELSE IF IsInstance(out.exc, "BinanceAPIError")
    THEN Local(Ret(ErrorDict(out.exc)))
    ELSE Local(out)

get_order_status(symbol, order_id, ts) ==
    Within(get_order(symbol, order_id, ts), Frame("mgr.get_order_status", [symbol |-> symbol]))

\* the try body of cancel_order after the client call returned
CancelOrderBody(out) ==
    IF out.k = "raise" THEN out
    ELSE LET order_id == CallGet(out.v, "orderId", PyNone)
         IN IF order_id.k = "raise" THEN order_id
            ELSE Ret(OrderResult(TRUE, order_id.v, DictGet(out.v, "symbol", PyNone),
                                 DictGet(out.v, "status", PyNone), PyNone, PyNone,
                                 <<Part("Order cancelled successfully")>>, out.v))

CancelOrderHandlers(symbol, out) ==
    IF out.k = "ret" THEN out
    ELSE IF IsInstance(out.exc, "BinanceAPIError")
    THEN Ret(OrderResult(FALSE, PyNone, symbol, PyNone, PyNone, PyNone,
                         _format_api_error(out.exc), PyNone))
    ELSE out

CancelOrderResume(args, out) == Local(CancelOrderHandlers(args.symbol, CancelOrderBody(out)))

cancel_order(symbol, order_id, ts) ==
    Within(client_cancel_order(symbol, order_id, ts),
           Frame("mgr.cancel_order", [symbol |-> symbol]))

GetOpenOrdersResume(args, out) ==
    IF out.k = "ret"
    THEN Local(Ret(PyDict(<<Item("success", PyBool(TRUE)), Item("orders", out.v)>>)))
    ELSE IF IsInstance(out.exc, "BinanceAPIError")
    THEN Local(Ret(FailureDict(out.exc)))
    ELSE Local(out)

get_open_orders(symbol, ts) ==
    Within(client_get_open_orders(symbol, ts), Frame("mgr.get_open_orders", [symbol |-> symbol]))

LeverageUnchanged == -4046

\* set_leverage without the branch for the unchanged-leverage code
SetLeverageWithoutUnchanged(args, out) ==
    IF out.k = "ret"
    THEN Local(Ret(PyDict(<<Item("success", PyBool(TRUE)), Item("response", out.v)>>)))
    ELSE IF IsInstance(out.exc, "BinanceAPIError")
    THEN Local(Ret(FailureDict(out.exc)))
    ELSE Local(out)

SetLeverageResume(args, out) ==
    IF out.k = "ret"
    THEN Local(Ret(PyDict(<<Item("success", PyBool(TRUE)), Item("response", out.v)>>)))
    ELSE IF IsInstance(out.exc, "BinanceAPIError")
    THEN IF out.exc.code = PyInt(LeverageUnchanged)
         THEN Local(Ret(PyDict(<<Item("success", PyBool(TRUE)),
                                 Item("message", PyStr(<<PartV("Leverage already set to ",
                                                               args.leverage)>>))>>)))
         ELSE Local(Ret(FailureDict(out.exc)))
    ELSE Local(out)

set_leverage(symbol, leverage, ts) ==
    Within(client_set_leverage(symbol, leverage, ts),
           Frame("mgr.set_leverage", [symbol |-> symbol, leverage |-> leverage]))

\* the try body of get_account_balance after the client call returned
AccountBalanceBody(out) ==
    IF out.k = "raise" THEN out
    ELSE LET available == float(DictGet(out.v, "availableBalance", PyInt(0)))
             total == float(DictGet(out.v, "totalBalance", PyInt(0)))
         IN IF available.k = "raise" THEN available
            ELSE IF total.k = "raise" THEN total
            ELSE Ret(PyDict(<<Item("success", PyBool(TRUE)),
                              Item("asset", DictGet(out.v, "asset", PyNone)),
                              Item("available", available.v),
                              Item("total", total.v)>>))

\* get_account_balance with its except clause left out
AccountBalanceUncaught(out) == out

AccountBalanceHandlers(out) ==
    IF out.k = "ret" THEN out
    ELSE IF IsInstance(out.exc, "BinanceAPIError")
    THEN Ret(FailureDict(out.exc))
    ELSE out

AccountBalanceResume(args, out) == Local(AccountBalanceHandlers(AccountBalanceBody(out)))

get_account_balance(asset, ts) ==
    Within(get_balance(asset, ts), Frame("mgr.get_account_balance", [asset |-> asset]))

-----------------------------------------------------------------------------
(* cli.py: the place command *)

Exit(code) == Raise([cls |-> "Exit", msg |-> <<>>, code |-> code])

\* place with the leverage set before the validation error is looked at
PlaceLeverageFirst(symbol, v, confirm, proceed, leverage, ts) ==
    IF v.k = "raise" THEN Local(v)
    ELSE IF Truthy(v.v.error)
    THEN IF Truthy(leverage) /\ symbol.t = "str"
         THEN set_leverage(symbol, leverage, ts)
         ELSE Local(Exit(1))
    ELSE IF confirm /\ ~proceed THEN Local(Exit(0))
    ELSE IF Truthy(leverage)
    THEN Within(set_leverage(v.v.order.symbol, leverage, ts),
                Frame("cli.place", [stage |-> "leverage", order_input |-> v.v.order]))
    ELSE Within(place_order(v.v.order, ts),
                Frame("cli.place", [stage |-> "place", order_input |-> v.v.order]))

\* place, from the result of validate_cli_input to its first call; symbol is
\* the --symbol option as typed
PlaceAfterValidation(symbol, v, confirm, proceed, leverage, ts) ==
    IF v.k = "raise" THEN Local(v)
    ELSE IF Truthy(v.v.error) THEN Local(Exit(1))
    ELSE IF confirm /\ ~proceed THEN Local(Exit(0))
    ELSE IF Truthy(leverage)
    THEN Within(set_leverage(v.v.order.symbol, leverage, ts),
                Frame("cli.place", [stage |-> "leverage", order_input |-> v.v.order]))
    ELSE Within(place_order(v.v.order, ts),
                Frame("cli.place", [stage |-> "place", order_input |-> v.v.order]))

\* place, resumed with what the order manager returned
CliPlaceResume(args, out, ts) ==
    IF out.k = "raise" THEN Local(out)
    ELSE IF args.stage = "leverage"
    THEN Within(place_order(args.order_input, ts),
                Frame("cli.place", [stage |-> "place", order_input |-> args.order_input]))
    ELSE Local(Exit(IF out.v.success THEN 0 ELSE 1))

-----------------------------------------------------------------------------
(* the single logical flow: a call is settled by resuming its callers in turn *)
(* until one of them waits for a request or none is left                      *)

Resume(fr, out, ts) ==
    CASE fr.fn = "client.get_balance" -> GetBalanceResume(fr.args, out)
      [] fr.fn = "client.test_connection" -> TestConnectionResume(fr.args, out, ts)
      [] fr.fn = "mgr.place_order" -> PlaceOrderResume(fr.args, out)
      [] fr.fn = "mgr.get_order_status" -> GetOrderStatusResume(fr.args, out)
      [] fr.fn = "mgr.cancel_order" -> CancelOrderResume(fr.args, out)
      [] fr.fn = "mgr.get_open_orders" -> GetOpenOrdersResume(fr.args, out)
      [] fr.fn = "mgr.set_leverage" -> SetLeverageResume(fr.args, out)
      [] fr.fn = "mgr.get_account_balance" -> AccountBalanceResume(fr.args, out)
      [] fr.fn = "cli.place" -> CliPlaceResume(fr.args, out, ts)

Calling == [k |-> "call"]

\* the record of one resumed caller: what it was given and what it gave
Resumed(fr, got, r) ==
    [fn |-> fr.fn, args |-> fr.args, got |-> got,
     out |-> IF r.k = "local" /\ r.frames = <<>> THEN r.out ELSE Calling]

\* r, the call the innermost caller turned into, on behalf of the callers left
Rest(r, outer) == [r EXCEPT !.frames = @ \o outer]

RECURSIVE Settle(_, _, _)
SettleStep(call, r, ts, log) ==
    Settle(Rest(r, Tail(call.frames)), ts,
           Append(log, Resumed(Head(call.frames), call.out, r)))

Settle(call, ts, log) ==
    IF call.k = "io" THEN [k |-> "io", req |-> call.req, frames |-> call.frames, log |-> log]
    ELSE IF call.frames = <<>> THEN [k |-> "done", out |-> call.out, log |-> log]
    ELSE SettleStep(call, Resume(Head(call.frames), call.out, ts), ts, log)

-----------------------------------------------------------------------------
(* the values the caller and the exchange are drawn from *)

MaxTime == 2
Timestamps == 1..MaxTime

BTCUSDT == PyStr(<<"B","T","C","U","S","D","T">>)
USDT == PyStr(<<"USDT">>)
BTC == PyStr(<<"BTC">>)

OrderIds == {PyNone, PyInt(0), PyInt(99)}
Leverages == {PyInt(10)}

Num0012 == <<"0",".","0","0","1","2">>
Num78 == <<"7","8",".","0","0","0","1","4">>

OrderBody ==
    PyDict(<<Item("orderId", PyInt(99)), Item("symbol", BTCUSDT),
             Item("status", PyStr(<<"FILLED">>)),
             Item("executedQty", PyStr(Num0012)), Item("cumQuote", PyStr(Num78))>>)
OrderBodyAvg == DictSet(OrderBody, "avgPrice", PyStr(<<"6","5","0","0","0",".","5">>))
OrderBodyBad == DictSet(OrderBody, "executedQty", PyStr(<<"n","/","a">>))
\* an order accepted and not filled yet, as the exchange reports it
OrderBodyNew ==
    DictSet(DictSet(DictSet(OrderBody, "executedQty", PyStr(<<"0">>)),
                    "cumQuote", PyStr(<<"0">>)),
            "avgPrice", PyStr(<<"0",".","0","0","0","0","0">>))
\* nothing executed and no average price given
OrderBodyUnfilled == DictSet(OrderBody, "executedQty", PyStr(<<"0">>))
\* a quantity executed with no notional reported
OrderBodyNoQuote == DictSet(OrderBody, "cumQuote", PyStr(<<"0">>))

AssetEntry(available) ==
    PyDict(<<Item("asset", USDT), Item("availableBalance", PyStr(available)),
             Item("totalBalance", PyStr(<<"2","0","0">>))>>)
AccountBody == PyDict(<<Item("assets", PyList(<<AssetEntry(<<"1","0","0",".","5">>)>>))>>)
AccountBodyBad == PyDict(<<Item("assets", PyList(<<AssetEntry(<<"n","/","a">>)>>))>>)

ListBody == PyList(<<>>)
NotJson == [t |-> "notjson"]

ErrBody(code, msg) == PyDict(<<Item("code", PyInt(code)), Item("msg", PyStr(<<msg>>))>>)
ErrNoCode == PyDict(<<Item("msg", PyStr(<<"Service unavailable.">>))>>)

SuccessBodies == {OrderBody, OrderBodyAvg, OrderBodyBad, OrderBodyNew, OrderBodyUnfilled,
                  OrderBodyNoQuote, AccountBody, AccountBodyBad, ListBody, NotJson}
ErrorBodies == {ErrBody(LeverageUnchanged, "No need to change leverage."),
                ErrBody(-2010, "Margin is insufficient."),
                ErrBody(-9999, "Something else."),
                ErrNoCode, EmptyDict, ListBody, NotJson}

\* response.json() of a body that is not JSON raises requests' JSONDecodeError,
\* a RequestException since requests 2.27 and a plain ValueError before
JsonErrors(body) == IF body = NotJson THEN {"JSONDecodeError", "ValueError"}
                    ELSE {"JSONDecodeError"}

AttemptOutcomes ==
    {Response(HttpOk, b, je) : <<b, je>> \in {<<b, je>> \in SuccessBodies \X {"JSONDecodeError", "ValueError"} : je \in JsonErrors(b)}}
    \cup {Response(400, b, je) : <<b, je>> \in {<<b, je>> \in ErrorBodies \X {"JSONDecodeError", "ValueError"} : je \in JsonErrors(b)}}
    \cup {Response(st, NotJson, "JSONDecodeError") : st \in {429, 503}}
    \cup {Response(503, ErrBody(-1001, "Internal error; unable to process your request."), "JSONDecodeError")}
    \cup {Failure(kd) : kd \in {"connect_timeout", "read_timeout", "conn_error"}}


Fields(symbol, side, order_type, quantity, price, stop_price) ==
    [symbol |-> symbol, side |-> side, order_type |-> order_type,
     quantity |-> quantity, price |-> price, stop_price |-> stop_price]

A20 == [i \in 1..SymbolMaxLen |-> "A"]

RawSymbols == {PyStr(<<"b","t","c","u","s","d","t"," ">>), BTCUSDT, PyStr(<<"A","B">>),
               PyStr(<<>>), PyStr(<<"B","T","C","-","U","S","D","T">>),
               PyStr(A20), PyStr(A20 \o <<"A">>), PyNone}
RawSides == {PyStr(<<"b","u","y">>), PyStr(SELL), PyStr(<<"H","O","L","D">>), PyNone}
RawTypes == {PyStr(<<"m","a","r","k","e","t">>), PyStr(LIMIT),
             PyStr(<<"S","t","o","p","_","L","i","m","i","t">>),
             PyStr(<<"I","O","C">>), PyNone}
RawQuantities == {PyFloat(12, 4), PyFloat(123456, 6), PyFloat(1234567, 7), PyFloat(0, 0),
                  PyFloat(-1, 3), PyInt(1), PyStr(<<"a","b","c">>), PyNone}
RawPrices == {PyNone, PyInt(65000), PyFloat(112345678, 8), PyFloat(123456789, 9),
              PyFloat(0, 0), PyFloat(-100, 0)}
RawStops == {PyNone, PyFloat(61000, 0), PyFloat(123456789, 9), PyFloat(0, 0),
             PyFloat(-1, 0)}

RawInputs ==
    {Fields(sy, sd, ty, q, p, sp) :
        sy \in RawSymbols, sd \in RawSides, ty \in RawTypes,
        q \in RawQuantities, p \in RawPrices, sp \in RawStops}

\* the orders typed at the command line in the pipeline's runs
CliOrders ==
    LET sym == PyStr(<<"b","t","c","u","s","d","t"," ">>)
        buy == PyStr(<<"b","u","y">>)
        qty == PyFloat(12, 4)
        price == PyFloat(112345678, 8)
        stop == PyFloat(61000, 0)
    IN {Fields(sym, buy, PyStr(<<"m","a","r","k","e","t">>), qty, PyNone, PyNone),
        Fields(sym, buy, PyStr(<<"l","i","m","i","t">>), qty, price, PyNone),
        Fields(sym, buy, PyStr(<<"l","i","m","i","t">>), qty, PyNone, PyNone),
        Fields(sym, PyStr(SELL), PyStr(STOP_LIMIT), qty, price, stop),
        Fields(sym, PyStr(SELL), PyStr(STOP_LIMIT), qty, price, PyNone),
        Fields(PyStr(<<"A","B">>), buy, PyStr(MARKET), qty, PyNone, PyNone),
        Fields(BTCUSDT, PyStr(<<"H","O","L","D">>), PyStr(MARKET), qty, PyNone, PyNone),
        Fields(BTCUSDT, buy, PyStr(MARKET), PyFloat(1234567, 7), PyNone, PyNone)}

\* the Order Intents the validator produces for them
ValidIntents ==
    {validate_cli_input(f.symbol, f.side, f.order_type, f.quantity, f.price,
                        f.stop_price).v.order :
        f \in {g \in CliOrders :
                 LET v == validate_cli_input(g.symbol, g.side, g.order_type, g.quantity,
                                             g.price, g.stop_price)
                 IN v.k = "ret" /\ ~IsNone(v.v.order)}}

\* an Order Intent whose order type is a member order_type_map does not list
UnmappedIntent ==
    [t |-> "OrderInput", symbol |-> BTCUSDT, side |-> BUY,
     order_type |-> <<"T","R","A","I","L","I","N","G">>, quantity |-> PyFloat(12, 4),
     price |-> PyNone, stop_price |-> PyNone]

RawMappings ==
    {PyNone,
     PyDict(<<Item("limit", PyInt(10))>>),
     PyDict(<<Item("limit", PyInt(10)), Item("symbol", BTCUSDT)>>),
     PyDict(<<Item("limit", PyInt(10)), Item("signature", PyStr(<<"stale">>))>>)}

-----------------------------------------------------------------------------
(* the state machine *)

NoResult == [k |-> "none"]
NoCmd == [fn |-> "none"]
NoRaw == [t |-> "none"]
Pending == [k |-> "pending"]

Init ==
    /\ pc = "idle"
    /\ cmd = NoCmd
    /\ frames = <<>>
    /\ sent = <<>>
    /\ calls = <<>>
    /\ result = NoResult
    /\ raw = NoRaw
    /\ vres = Pending

\* the caller invokes an entry point: it runs until it returns, raises, or
\* hands a request to the session
Proceed(s, before) ==
    /\ calls' = s.log
    /\ IF s.k = "io"
       THEN /\ pc' = "http"
            /\ frames' = s.frames
            /\ sent' = Append(before, s.req)
            /\ result' = NoResult
       ELSE /\ pc' = "done"
            /\ frames' = <<>>
            /\ sent' = before
            /\ result' = s.out

Begin(c, call, ts) ==
    /\ pc = "idle"
    /\ cmd' = c
    /\ Proceed(Settle(call, ts, <<>>), <<>>)

Cmd(fn, args) == [fn |-> fn, args |-> args]

\* cli.py place
\* the --leverage option in the pipeline's runs: given with the orders typed
\* without a price, left out with the others
LeverageOptions(f) == IF IsNone(f.price) THEN Leverages \cup {PyNone} ELSE {PyNone}

PlaceCommand ==
    \E f \in CliOrders, confirm \in BOOLEAN, proceed \in BOOLEAN, ts \in Timestamps :
      \E leverage \in LeverageOptions(f) :
        LET v == validate_cli_input(f.symbol, f.side, f.order_type, f.quantity,
                                    f.price, f.stop_price)
        IN /\ Begin(Cmd("cli.place", [leverage |-> leverage]),
                    PlaceAfterValidation(f.symbol, v, confirm, proceed, leverage, ts), ts)
           /\ raw' = f
           /\ vres' = v

ManagerPlaceOrder ==
    \E order_input \in ValidIntents \cup {UnmappedIntent}, ts \in Timestamps :
        /\ Begin(Cmd("mgr.place_order", [order_input |-> order_input]),
                 place_order(order_input, ts), ts)
        /\ UNCHANGED <<raw, vres>>

ManagerCancelOrder ==
    \E order_id \in OrderIds, ts \in Timestamps :
        /\ Begin(Cmd("mgr.cancel_order", [order_id |-> order_id]),
                 cancel_order(BTCUSDT, order_id, ts), ts)
        /\ UNCHANGED <<raw, vres>>

ManagerGetOrderStatus ==
    \E order_id \in OrderIds \ {PyNone}, ts \in Timestamps :
        /\ Begin(Cmd("mgr.get_order_status", [order_id |-> order_id]),
                 get_order_status(BTCUSDT, order_id, ts), ts)
        /\ UNCHANGED <<raw, vres>>

ManagerGetOpenOrders ==
    \E symbol \in {PyNone, BTCUSDT}, ts \in Timestamps :
        /\ Begin(Cmd("mgr.get_open_orders", [symbol |-> symbol]),
                 get_open_orders(symbol, ts), ts)
        /\ UNCHANGED <<raw, vres>>

ManagerSetLeverage ==
    \E leverage \in Leverages, ts \in Timestamps :
        /\ Begin(Cmd("mgr.set_leverage", [leverage |-> leverage]),
                 set_leverage(BTCUSDT, leverage, ts), ts)
        /\ UNCHANGED <<raw, vres>>

ManagerGetAccountBalance ==
    \E asset \in {USDT, BTC}, ts \in Timestamps :
        /\ Begin(Cmd("mgr.get_account_balance", [asset |-> asset]),
                 get_account_balance(asset, ts), ts)
        /\ UNCHANGED <<raw, vres>>

ClientPlaceOrder ==
    \E order_type \in {PyStr(MARKET), PyStr(LIMIT), PyStr(STOP), PyStr(<<"l","i","m","i","t">>)},
       price \in {PyNone, PyFloat(112345678, 8)},
       stop_price \in {PyNone, PyFloat(61000, 0)},
       reduce_only \in BOOLEAN, ts \in Timestamps :
        /\ Begin(Cmd("client.place_order",
                     [order_type |-> order_type, price |-> price,
                      stop_price |-> stop_price, reduce_only |-> reduce_only]),
                 client_place_order(BTCUSDT, PyStr(BUY), order_type, PyFloat(12, 4),
                                    price, stop_price, PyStr(<<"GTC">>), reduce_only, ts),
                 ts)
        /\ UNCHANGED <<raw, vres>>

ClientCancelOrder ==
    \E order_id \in OrderIds, ts \in Timestamps :
        /\ Begin(Cmd("client.cancel_order", [order_id |-> order_id]),
                 client_cancel_order(BTCUSDT, order_id, ts), ts)
        /\ UNCHANGED <<raw, vres>>

ClientGetExchangeInfo ==
    \E symbol \in {PyNone, BTCUSDT}, ts \in Timestamps :
        /\ Begin(Cmd("client.get_exchange_info", [symbol |-> symbol]),
                 get_exchange_info(symbol, ts), ts)
        /\ UNCHANGED <<raw, vres>>

ClientGetPositionInfo ==
    \E symbol \in {PyNone, BTCUSDT}, ts \in Timestamps :
        /\ Begin(Cmd("client.get_position_info", [symbol |-> symbol]),
                 get_position_info(symbol, ts), ts)
        /\ UNCHANGED <<raw, vres>>

ClientTestConnection ==
    \E ts \in Timestamps :
        /\ Begin(Cmd("client.test_connection", [none |-> TRUE]), test_connection(ts), ts)
        /\ UNCHANGED <<raw, vres>>

\* a signed request made through _make_request directly, as the history command does
ClientMakeRequest ==
    \E method \in SupportedMethods \cup {"PUT"}, params \in RawMappings, ts \in Timestamps :
        /\ Begin(Cmd("client._make_request", [method |-> method, params |-> params]),
                 _make_request(method, "/fapi/v1/allOrders", params, TRUE, ts), ts)
        /\ UNCHANGED <<raw, vres>>

InFlight == sent[Len(sent)]

\* an attempt is answered by a listed status, or fails, with retries left:
\* the adapter sleeps and tries again
HttpRetry ==
    \E o \in AttemptOutcomes :
        /\ pc = "http"
        /\ WillRetry(InFlight, o)
        /\ sent' = [sent EXCEPT ![Len(sent)] = AfterAttempt(InFlight, o)]
        /\ UNCHANGED <<pc, cmd, frames, calls, result, raw, vres>>

\* the last attempt of the request in flight: _make_request classifies what the
\* session gave and the waiting callers are resumed
HttpFinish ==
    \E o \in AttemptOutcomes, ts \in Timestamps :
        /\ pc = "http"
        /\ ~WillRetry(InFlight, o)
        /\ Proceed(Settle(Rest(Local(MakeRequestFinish(SessionOutcome(InFlight, o))),
                                frames), ts, calls),
                   [sent EXCEPT ![Len(sent)] = LastAttempt(InFlight, o)])
        /\ UNCHANGED <<cmd, raw, vres>>

\* the caller has its answer and moves on to its next command
NextCommand ==
    /\ pc = "done"
    /\ pc' = "idle"
    /\ cmd' = NoCmd
    /\ frames' = <<>>
    /\ sent' = <<>>
    /\ calls' = <<>>
    /\ result' = NoResult
    /\ raw' = NoRaw
    /\ vres' = Pending

Next ==
    \/ PlaceCommand
    \/ ManagerPlaceOrder
    \/ ManagerCancelOrder
    \/ ManagerGetOrderStatus
    \/ ManagerGetOpenOrders
    \/ ManagerSetLeverage
    \/ ManagerGetAccountBalance
    \/ ClientPlaceOrder
    \/ ClientCancelOrder
    \/ ClientGetExchangeInfo
    \/ ClientGetPositionInfo
    \/ ClientTestConnection
    \/ ClientMakeRequest
    \/ HttpRetry
    \/ HttpFinish
    \/ NextCommand

Spec == Init /\ [][Next]_vars

-----------------------------------------------------------------------------
(* validate_cli_input applied to every raw input *)

InitValidate ==
    /\ pc = "idle"
    /\ cmd = NoCmd
    /\ frames = <<>>
    /\ sent = <<>>
    /\ calls = <<>>
    /\ result = NoResult
    /\ raw \in RawInputs
    /\ vres = Pending

ValidateCall ==
    /\ vres = Pending
    /\ vres' = validate_cli_input(raw.symbol, raw.side, raw.order_type, raw.quantity,
                                  raw.price, raw.stop_price)
    /\ UNCHANGED <<pc, cmd, frames, sent, calls, result, raw>>

\* OrderSide(value): the enumeration called with the raw side string
OrderSideCall ==
    /\ result = NoResult
    /\ raw.side.t = "str"
    /\ result' = EnumLookup(OrderSide, raw.side.s)
    /\ UNCHANGED <<pc, cmd, frames, sent, calls, raw, vres>>

\* validate_cli_input called again with the fields of the Order Intent it returned
Revalidate ==
    /\ vres # Pending
    /\ vres.k = "ret"
    /\ ~IsNone(vres.v.order)
    /\ result = NoResult
    /\ cmd' = Cmd("validate_cli_input", [order |-> vres.v.order])
    /\ result' = validate_cli_input(vres.v.order.symbol, PyStr(vres.v.order.side),
                                    PyStr(vres.v.order.order_type), vres.v.order.quantity,
                                    vres.v.order.price, vres.v.order.stop_price)
    /\ UNCHANGED <<pc, frames, sent, calls, raw, vres>>

NextValidate ==
    \/ ValidateCall
    \/ OrderSideCall
    \/ Revalidate

SpecValidate == InitValidate /\ [][NextValidate]_vars

-----------------------------------------------------------------------------
(* _generate_signature applied to a mapping and to the same entries reordered *)

SignPairs == <<Item("symbol", BTCUSDT), Item("side", PyStr(BUY)),
               Item("quantity", PyFloat(12, 4)), Item("timestamp", PyInt(1))>>

\* every mapping of some of the entries, in every insertion order
SignInputs ==
    UNION {{PyDict([i \in 1..n |-> SignPairs[f[i]]]) :
               f \in {g \in [1..n -> DOMAIN SignPairs] :
                         \A i, j \in 1..n : g[i] = g[j] => i = j}} :
           n \in DOMAIN SignPairs}

InitSign ==
    /\ pc = "idle"
    /\ cmd = NoCmd
    /\ frames = <<>>
    /\ sent = <<>>
    /\ calls = <<>>
    /\ result = NoResult
    /\ raw \in SignInputs
    /\ vres = Pending

Reordered(d, p) == PyDict([i \in DOMAIN d.items |-> d.items[p[i]]])

\* the mapping is signed, and so is a mapping of the same entries inserted in
\* another order (or the same order again)
SignCall ==
    \E p \in Permutations(DOMAIN raw.items) :
        /\ result = NoResult
        /\ cmd' = Cmd("_generate_signature", [params |-> Reordered(raw, p)])
        /\ result' = [k |-> "signed", first |-> _generate_signature(raw),
                       second |-> _generate_signature(Reordered(raw, p))]
        /\ UNCHANGED <<pc, frames, sent, calls, raw, vres>>

NextSign == SignCall

SpecSign == InitSign /\ [][NextSign]_vars

-----------------------------------------------------------------------------
(* properties of the order manager *)

ManagerOps == {"mgr.place_order", "mgr.cancel_order", "mgr.get_order_status",
               "mgr.get_open_orders", "mgr.set_leverage", "mgr.get_account_balance"}

\* an OrderResult with success False, or a dict reporting an error
IsFailureValue(v) ==
    IF v.t = "OrderResult" THEN ~v.success
    ELSE /\ v.t = "dict"
         /\ HasKey(v, "error")
         /\ DictGet(v, "success", PyBool(FALSE)) = PyBool(FALSE)

IsSuccessDict(v) ==
    /\ v.t = "dict"
    /\ DictGet(v, "success", PyNone) = PyBool(TRUE)
    /\ ~HasKey(v, "error")

\* the operation's client call raised a BinanceAPIError: a Domain Error of the
\* exchange, or a transport error (then without a code)
GotApiError(e) ==
    /\ e.fn \in ManagerOps
    /\ e.got.k = "raise"
    /\ IsInstance(e.got.exc, "BinanceAPIError")

IsLeverageUnchanged(e) ==
    e.fn = "mgr.set_leverage" /\ e.got.exc.code = PyInt(LeverageUnchanged)

\* C1 as stated: each of the six operations, when its client call raises a Domain
\* Error or a transport error, returns a failure value and lets nothing propagate.
C1_AlwaysFailureValue ==
    \A i \in DOMAIN calls :
        GotApiError(calls[i]) =>
            calls[i].out.k = "ret" /\ IsFailureValue(calls[i].out.v)

\* C1 amended: when its client call raises a Domain Error or a transport error, each
\* of the six operations returns a value and lets nothing propagate; the value is a
\* failure value, except that set_leverage returns a success value for the Domain
\* Error with code -4046.
C1_ErrorsBecomeValues ==
    \A i \in DOMAIN calls :
        GotApiError(calls[i]) =>
            /\ calls[i].out.k = "ret"
            /\ IF IsLeverageUnchanged(calls[i])
               THEN IsSuccessDict(calls[i].out.v) /\ HasKey(calls[i].out.v, "message")
               ELSE IsFailureValue(calls[i].out.v)

\* one place command in which set_leverage met code -4046 and place_order then
\* met a transport error
C1_Witness ==
    \E i, j \in DOMAIN calls :
        /\ GotApiError(calls[i]) /\ IsLeverageUnchanged(calls[i])
        /\ IsSuccessDict(calls[i].out.v)
        /\ calls[j].fn = "mgr.place_order" /\ GotApiError(calls[j])
        /\ IsNone(calls[j].got.exc.code)
        /\ IsFailureValue(calls[j].out.v)

\* C2 as stated: no failure raised during one of the six operations is propagated to
\* its caller; whatever was raised, the operation returns a value.
C2_NothingPropagates ==
    \A i \in DOMAIN calls :
        calls[i].fn \in ManagerOps => calls[i].out.k = "ret"

-----------------------------------------------------------------------------
(* properties of the transport *)

\* the request sent[i] has been answered: no further attempt of it is made
Answered(i) == i < Len(sent) \/ pc = "done"

\* C3 as stated: no request is attempted more than 3 times in total, and a request
\* whose every attempt was answered with status 503 is attempted exactly 3 times.
C3_ThreeAttempts ==
    \A i \in DOMAIN sent :
        /\ sent[i].attempts <= 3
        /\ (Answered(i) /\ sent[i].only503) => sent[i].attempts = 3

\* the mapping d without the key k
Without(d, k) == PyDict(SelectSeq(d.items, LAMBDA it : it.k # k))

\* C4 as stated: every signed request carries timestamp, recvWindow 5000 and a
\* signature computed over exactly its other parameters, no signature entry being
\* part of the signed input whatever mapping the caller passed; every unsigned
\* request carries none of the three.
C4_SignedOverOtherParams ==
    \A i \in DOMAIN sent :
        IF sent[i].signed
        THEN /\ HasKey(sent[i].params, "timestamp")
             /\ DictGet(sent[i].params, "recvWindow", PyNone) = PyInt(5000)
             /\ HasKey(sent[i].params, "signature")
             /\ ~HasKey(sent[i].signed_input, "signature")
             /\ sent[i].signed_input = Without(sent[i].params, "signature")
             /\ DictGet(sent[i].params, "signature", PyNone)
                    = Hmac(ApiSecret, QueryString(Without(sent[i].params, "signature")))
        ELSE /\ ~HasKey(sent[i].params, "timestamp")
             /\ ~HasKey(sent[i].params, "recvWindow")
             /\ ~HasKey(sent[i].params, "signature")

-----------------------------------------------------------------------------
(* properties of the API client *)

\* C5 as stated: the client's cancel_order without an order id raises a
\* BinanceAPIError and sends nothing; with any integer order id it issues exactly
\* one signed DELETE carrying that orderId.
C5_CancelNeedsId ==
    (cmd.fn = "client.cancel_order" /\ pc # "idle") =>
        IF IsNone(cmd.args.order_id)
        THEN /\ pc = "done"
             /\ sent = <<>>
             /\ result.k = "raise"
             /\ result.exc.cls = "BinanceAPIError"
        ELSE /\ Len(sent) = 1
             /\ sent[1].method = "DELETE"
             /\ sent[1].signed
             /\ DictGet(sent[1].params, "orderId", PyNone) = cmd.args.order_id

\* the wire order type of the client's place_order command
WireType == StrUpper(cmd.args.order_type.s)

\* C6: the client's place_order raises a BinanceAPIError without a code and sends
\* nothing when the wire type is LIMIT or STOP and price is absent, or the wire type
\* is STOP and stop price is absent; otherwise it issues exactly one signed POST,
\* with price only for LIMIT and STOP and stopPrice only for STOP.
C6_PlaceOrderPreflight ==
    (cmd.fn = "client.place_order" /\ pc # "idle") =>
        IF \/ WireType \in {LIMIT, STOP} /\ IsNone(cmd.args.price)
           \/ WireType = STOP /\ IsNone(cmd.args.stop_price)
        THEN /\ pc = "done"
             /\ sent = <<>>
             /\ result.k = "raise"
             /\ result.exc.cls = "BinanceAPIError"
             /\ IsNone(result.exc.code)
        ELSE /\ Len(sent) = 1
             /\ sent[1].method = "POST"
             /\ sent[1].endpoint = "/fapi/v1/order"
             /\ sent[1].signed
             /\ HasKey(sent[1].params, "price") <=> WireType \in {LIMIT, STOP}
             /\ HasKey(sent[1].params, "stopPrice") <=> WireType = STOP
             /\ HasKey(sent[1].params, "price") =>
                    DictGet(sent[1].params, "price", PyNone) = cmd.args.price
             /\ HasKey(sent[1].params, "stopPrice") =>
                    DictGet(sent[1].params, "stopPrice", PyNone) = cmd.args.stop_price

\* a STOP order with price and stop price was sent, and one attempt was made
C6_Witness ==
    /\ cmd.fn = "client.place_order"
    /\ WireType = STOP
    /\ Len(sent) = 1
    /\ sent[1].attempts = 1
    /\ HasKey(sent[1].params, "price")
    /\ HasKey(sent[1].params, "stopPrice")

-----------------------------------------------------------------------------
(* properties of the place flow *)

ValidationFailed == vres.k = "ret" /\ IsNone(vres.v.order)
ValidationPassed ==
    vres.k = "ret" /\ ~IsNone(vres.v.order) /\ vres.v.error = PyStr(<<>>)

\* C7: in the place flow, when validation of the raw fields fails no client call and
\* no HTTP request is made and the command exits with code 1; a request is only
\* ever sent for an order that passed validation, and a placement request carries
\* the validated symbol.
C7_ValidationFailureStaysLocal ==
    cmd.fn = "cli.place" =>
        /\ ValidationFailed =>
              sent = <<>> /\ calls = <<>> /\ pc = "done" /\ result = Exit(1)
        /\ \A i \in DOMAIN sent :
              /\ ValidationPassed
              /\ sent[i].endpoint = "/fapi/v1/order" =>
                    DictGet(sent[i].params, "symbol", PyNone) = vres.v.order.symbol

\* a place command with a leverage whose order failed validation
C7_Witness ==
    /\ cmd.fn = "cli.place"
    /\ pc = "done"
    /\ ValidationFailed
    /\ Truthy(cmd.args.leverage)
    /\ sent = <<>>
    /\ result = Exit(1)

-----------------------------------------------------------------------------
(* properties of validate_cli_input *)

Validated == vres # Pending

\* a complete, self-consistent Order Intent
IsIntent(o) ==
    /\ o.t = "OrderInput"
    /\ o.symbol.t = "str" /\ MatchesSymbolPattern(o.symbol.s)
    /\ o.side \in {BUY, SELL}
    /\ o.order_type \in {MARKET, LIMIT, STOP_LIMIT}
    /\ o.quantity.t = "float" /\ o.quantity.m > 0
    /\ o.order_type = LIMIT => ~IsNone(o.price)
    /\ o.order_type = STOP_LIMIT => ~IsNone(o.price) /\ ~IsNone(o.stop_price)

\* C8: for every input, wrong-typed and missing values included, validate_cli_input
\* returns (it never raises) either a complete Order Intent with the empty error
\* message, or no Intent with a non-empty error message.
C8_IntentOrError ==
    Validated =>
        /\ vres.k = "ret"
        /\ vres.v.error.t = "str"
        /\ IF IsNone(vres.v.order)
           THEN vres.v.error.s # <<>>
           ELSE IsIntent(vres.v.order) /\ vres.v.error.s = <<>>

\* a missing side was reported as an error
C8_Witness ==
    /\ Validated
    /\ IsNone(raw.side)
    /\ vres.k = "ret"
    /\ IsNone(vres.v.order)
    /\ vres.v.error.s # <<>>

\* the raw value names a member of the enumeration, in any letter case
Names(v, enum) == v.t = "str" /\ StrUpper(v.s) \in enum

\* symbol, side and quantity pass their own checks
BaseFieldsValid ==
    /\ SymbolField(raw.symbol).ok
    /\ Names(raw.side, {BUY, SELL})
    /\ QuantityField(raw.quantity).ok

PriceValid == PriceField(raw.price).ok
StopPriceValid == StopPriceField(raw.stop_price).ok

Succeeded == vres.k = "ret" /\ ~IsNone(vres.v.order)
FailedWith(text) ==
    /\ vres.k = "ret"
    /\ IsNone(vres.v.order)
    /\ \E i \in DOMAIN vres.v.error.s : vres.v.error.s[i] = Part(text)

\* C9: with all individual fields valid, LIMIT without a price fails with a
\* requires-price error and LIMIT with a price succeeds; STOP_LIMIT fails without a
\* price, fails without a stop price, and succeeds exactly when both are present.
C9_CrossFieldRule ==
    (Validated /\ BaseFieldsValid /\ PriceValid /\ StopPriceValid) =>
        /\ Names(raw.order_type, {LIMIT}) =>
              IF IsNone(raw.price) THEN FailedWith("LIMIT orders require a price")
              ELSE Succeeded
        /\ Names(raw.order_type, {STOP_LIMIT}) =>
              IF IsNone(raw.price)
              THEN FailedWith("STOP_LIMIT orders require a limit price")
              ELSE IF IsNone(raw.stop_price)
              THEN FailedWith("STOP_LIMIT orders require a stop price")
              ELSE Succeeded

\* a STOP_LIMIT order with a valid price and no stop price was refused
C9_Witness ==
    /\ Validated /\ BaseFieldsValid /\ PriceValid
    /\ Names(raw.order_type, {STOP_LIMIT})
    /\ ~IsNone(raw.price)
    /\ IsNone(raw.stop_price)
    /\ FailedWith("STOP_LIMIT orders require a stop price")

\* C10 as stated: with valid symbol, side and quantity a MARKET order validates
\* successfully whatever price or stop price value is supplied alongside it.
C10_MarketIgnoresExtras ==
    (Validated /\ BaseFieldsValid /\ Names(raw.order_type, {MARKET})) => Succeeded

\* C10 amended: MARKET requires neither price nor stop price; with valid symbol,
\* side and quantity a MARKET order validates successfully exactly when each of
\* price and stop price is absent or passes its own field check.
C10_MarketNeedsNoPrice ==
    (Validated /\ BaseFieldsValid /\ Names(raw.order_type, {MARKET})) =>
        (Succeeded <=> (PriceValid /\ StopPriceValid))

\* a MARKET order given a valid price and a valid stop price was accepted
C10_Witness ==
    /\ Validated /\ BaseFieldsValid
    /\ Names(raw.order_type, {MARKET})
    /\ ~IsNone(raw.price) /\ ~IsNone(raw.stop_price)
    /\ Succeeded

-----------------------------------------------------------------------------
(* properties of the field checks, seen through validate_cli_input *)

\* the cross-field rule is satisfied by the raw price and stop price
CrossFieldOk ==
    /\ Names(raw.order_type, {LIMIT}) => ~IsNone(raw.price)
    /\ Names(raw.order_type, {STOP_LIMIT}) => ~IsNone(raw.price) /\ ~IsNone(raw.stop_price)

SideAndTypeValid ==
    Names(raw.side, {BUY, SELL}) /\ Names(raw.order_type, {MARKET, LIMIT, STOP_LIMIT})

\* the symbol as normalized: upper-cased, then trimmed
NormalizedSymbol == StrStrip(StrUpper(raw.symbol.s))

\* C11: the symbol is upper-cased and trimmed; validation fails for every symbol
\* that then does not match ^[A-Z0-9]{3,20}$ (the empty symbol included), with an
\* error about the symbol, and with the other fields valid it succeeds for every
\* symbol that matches, the Intent holding the normalized symbol.
C11_SymbolRule ==
    (Validated /\ raw.symbol.t = "str") =>
        IF MatchesSymbolPattern(NormalizedSymbol)
        THEN (SideAndTypeValid /\ QuantityField(raw.quantity).ok /\ PriceValid
              /\ StopPriceValid /\ CrossFieldOk) =>
                 Succeeded /\ vres.v.order.symbol = PyStr(NormalizedSymbol)
        ELSE /\ ~Succeeded
             /\ SideAndTypeValid =>
                   IF raw.symbol.s = <<>> THEN FailedWith("Symbol cannot be empty")
                   ELSE FailedWith("Invalid symbol format")

\* a lower-case symbol with a trailing blank was accepted as BTCUSDT
C11_Witness ==
    /\ Validated
    /\ raw.symbol = PyStr(<<"b","t","c","u","s","d","t"," ">>)
    /\ Succeeded
    /\ vres.v.order.symbol = BTCUSDT

\* the raw value converts to a float
IsNumber(v) == v.t \in {"float", "int", "bool", "str"} /\ float(v).k = "ret"
\* the value of a number, and the count of its fractional decimal digits
NumberOf(v) == float(v).v
FractionDigits(v) == NumberOf(v).e

\* C12: a quantity is accepted if and only if it is strictly positive and has at
\* most 6 fractional decimal digits; zero, negative quantities and quantities with
\* more digits are rejected, whatever the other fields.
C12_QuantityRule ==
    (Validated /\ IsNumber(raw.quantity)) =>
        IF NumberOf(raw.quantity).m > 0 /\ FractionDigits(raw.quantity) <= 6
        THEN (SideAndTypeValid /\ SymbolField(raw.symbol).ok /\ PriceValid
              /\ StopPriceValid /\ CrossFieldOk) =>
                 Succeeded /\ vres.v.order.quantity = NumberOf(raw.quantity)
        ELSE /\ ~Succeeded
             /\ SideAndTypeValid =>
                   IF NumberOf(raw.quantity).m <= 0
                   THEN FailedWith("Quantity must be positive")
                   ELSE FailedWith("Quantity has too many decimal places")

\* a quantity with 7 fractional digits was refused
C12_Witness ==
    /\ Validated
    /\ SideAndTypeValid
    /\ raw.quantity = PyFloat(1234567, 7)
    /\ FailedWith("Quantity has too many decimal places")

\* what the claim accepts as a price and as a stop price
PriceAcceptable ==
    IsNone(raw.price) \/
        (IsNumber(raw.price) /\ NumberOf(raw.price).m > 0 /\ FractionDigits(raw.price) <= 8)
StopPriceAcceptable ==
    IsNone(raw.stop_price) \/ (IsNumber(raw.stop_price) /\ NumberOf(raw.stop_price).m > 0)

\* C13: a supplied price is accepted if and only if it is strictly positive with at
\* most 8 fractional decimal digits, a supplied stop price if and only if it is
\* strictly positive, whatever its digits; an absent price or stop price passes the
\* field check.
C13_PriceRule ==
    Validated =>
        /\ (PriceAcceptable /\ StopPriceAcceptable /\ SideAndTypeValid
            /\ SymbolField(raw.symbol).ok /\ QuantityField(raw.quantity).ok
            /\ CrossFieldOk) => Succeeded
        /\ ~PriceAcceptable => ~Succeeded
        /\ ~StopPriceAcceptable => ~Succeeded
        /\ (SideAndTypeValid /\ IsNumber(raw.price) /\ NumberOf(raw.price).m <= 0) =>
              FailedWith("Price must be positive")
        /\ (SideAndTypeValid /\ IsNumber(raw.stop_price) /\ NumberOf(raw.stop_price).m <= 0) =>
              FailedWith("Stop price must be positive")

\* an order with an 8-digit price and a 9-digit stop price was accepted
C13_Witness ==
    /\ Validated
    /\ raw.price = PyFloat(112345678, 8)
    /\ raw.stop_price = PyFloat(123456789, 9)
    /\ Succeeded

-----------------------------------------------------------------------------
(* properties of the side and order-type parsing *)

InvalidValueError(label, v, enum) ==
    <<PartV(label, v), PartV("Valid options are: ", PyList(enum))>>

MentionsInvalid(label) ==
    \E i \in DOMAIN vres.v.error.s : vres.v.error.s[i].text = label

\* C14: validate_cli_input parses every case variant of BUY/SELL and of
\* MARKET/LIMIT/STOP_LIMIT to the corresponding member; any other side string, and
\* with a valid side any other order-type string, yields no Intent and an error that
\* names the invalid value and lists the valid options.
C14_CaseInsensitiveParsing ==
    (Validated /\ raw.side.t = "str" /\ raw.order_type.t = "str") =>
        /\ vres.k = "ret"
        /\ IF ~Names(raw.side, {BUY, SELL})
           THEN /\ IsNone(vres.v.order)
                /\ vres.v.error.s = InvalidValueError("Invalid side: ", raw.side, <<BUY, SELL>>)
           ELSE IF ~Names(raw.order_type, {MARKET, LIMIT, STOP_LIMIT})
           THEN /\ IsNone(vres.v.order)
                /\ vres.v.error.s = InvalidValueError("Invalid order type: ", raw.order_type,
                                                      <<MARKET, LIMIT, STOP_LIMIT>>)
           ELSE /\ ~MentionsInvalid("Invalid side: ")
                /\ ~MentionsInvalid("Invalid order type: ")
                /\ Succeeded =>
                      /\ vres.v.order.side = StrUpper(raw.side.s)
                      /\ vres.v.order.order_type = StrUpper(raw.order_type.s)

\* side "buy" and order type "Stop_Limit" were parsed to BUY and STOP_LIMIT
C14_Witness ==
    /\ Validated
    /\ raw.side = PyStr(<<"b","u","y">>)
    /\ raw.order_type = PyStr(<<"S","t","o","p","_","L","i","m","i","t">>)
    /\ Succeeded
    /\ vres.v.order.side = BUY
    /\ vres.v.order.order_type = STOP_LIMIT

\* C15 as stated: OrderSide called with any case variant of a side name yields the
\* corresponding member, not an error.
C15_EnumCaseInsensitive ==
    (result # NoResult /\ cmd = NoCmd /\ Names(raw.side, {BUY, SELL})) =>
        result = Ret(StrUpper(raw.side.s))

-----------------------------------------------------------------------------
(* properties of set_leverage and place_order of the order manager *)

\* C16: when the client's set_leverage raises a Domain Error with code -4046,
\* OrderManager.set_leverage reports success with an "already set" message; for
\* every other Domain Error it reports failure.
C16_LeverageIdempotence ==
    \A i \in DOMAIN calls :
        (calls[i].fn = "mgr.set_leverage" /\ calls[i].got.k = "raise"
         /\ calls[i].got.exc.cls = "BinanceAPIError") =>
            /\ calls[i].out.k = "ret"
            /\ calls[i].out.v.t = "dict"
            /\ IF calls[i].got.exc.code = PyInt(-4046)
               THEN /\ DictGet(calls[i].out.v, "success", PyNone) = PyBool(TRUE)
                    /\ DictGet(calls[i].out.v, "message", PyNone)
                          = PyStr(<<PartV("Leverage already set to ", calls[i].args.leverage)>>)
               ELSE /\ DictGet(calls[i].out.v, "success", PyNone) = PyBool(FALSE)
                    /\ DictGet(calls[i].out.v, "error", PyNone)
                          = PyStr(ApiErrorStr(calls[i].got.exc))

\* the order manager's set_leverage met code -4046 and returned success
C16_Witness ==
    /\ cmd.fn = "mgr.set_leverage"
    /\ pc = "done"
    /\ Len(calls) = 1
    /\ calls[1].got.k = "raise"
    /\ calls[1].got.exc.cls = "BinanceAPIError"
    /\ calls[1].got.exc.code = PyInt(-4046)
    /\ result.k = "ret"
    /\ DictGet(result.v, "success", PyNone) = PyBool(TRUE)

\* how often the order manager's place_order has called the client: once for each
\* answer it was resumed with, and once if it is waiting for one
PlaceInvocations ==
    Cardinality({i \in DOMAIN calls : calls[i].fn = "mgr.place_order"})
        + Cardinality({i \in DOMAIN frames : frames[i].fn = "mgr.place_order"})

PlacementRequests ==
    {i \in DOMAIN sent : sent[i].endpoint = "/fapi/v1/order" /\ sent[i].method = "POST"}

\* C17: OrderManager.place_order calls the client's place_order exactly once for an
\* Intent whose order type has a wire mapping, and never a second time after a
\* failure of any kind: one call of place_order sends one placement request and
\* returns a result.
C17_OnePlacementAttempt ==
    /\ (cmd.fn = "mgr.place_order" /\ pc # "idle"
            /\ cmd.args.order_input.order_type \in {MARKET, LIMIT, STOP_LIMIT}) =>
          /\ PlaceInvocations = 1
          /\ Cardinality(PlacementRequests) = 1
          /\ Len(sent) = 1
          /\ pc = "done" => result.k = "ret" /\ result.v.t = "OrderResult"
    /\ cmd.fn = "cli.place" =>
          /\ PlaceInvocations <= 1
          /\ Cardinality(PlacementRequests) <= 1

\* place_order returned failure after its one request ran out of retries
C17_Witness ==
    /\ cmd.fn = "mgr.place_order"
    /\ pc = "done"
    /\ PlaceInvocations = 1
    /\ Len(sent) = 1
    /\ sent[1].attempts = RetryTotal + 1
    /\ result.k = "ret"
    /\ ~result.v.success

\* the commands whose result is what _make_request returned or raised
DirectCommands == {"client._make_request", "client.get_exchange_info",
                   "client.get_position_info"}

\* the request of a direct command ended with a response whose body parsed as JSON
ClassifiedResponse ==
    /\ pc = "done"
    /\ cmd.fn \in DirectCommands
    /\ Len(sent) = 1
    /\ sent[1].answer.kind = "response"
    /\ sent[1].answer.body.t # "notjson"

\* the Domain Error of a non-200 response: the body's code and msg, the HTTP
\* status for a missing code, a generic message for a missing msg
ErrorOfResponse(resp) ==
    ApiError(MsgOf(DictGet(resp.body, "msg", PyStr(<<"Unknown error">>))),
             DictGet(resp.body, "code", PyInt(resp.status)), resp.body)

DirectAnswer(a) ==
    /\ pc = "done"
    /\ cmd.fn \in DirectCommands
    /\ Len(sent) = 1
    /\ sent[1].answer = a

TransportFailures == {Failure(kd) : kd \in {"connect_timeout", "read_timeout", "conn_error"}}

IsDomainError(out) == out.k = "raise" /\ out.exc.cls = "BinanceAPIError"

CallSucceeded(i) ==
    /\ i \in DOMAIN sent
    /\ sent[i].answer.kind = "response"
    /\ sent[i].answer.status = HttpOk
    /\ sent[i].answer.body.t # "notjson"

\* C20: test_connection calls the unsigned metadata endpoint first and the signed
\* account endpoint second, makes the signed call only if the unsigned one
\* succeeded, returns true only if both succeeded and false if either failed, and
\* never raises.
C20_TestConnection ==
    (cmd.fn = "client.test_connection" /\ pc # "idle") =>
        /\ Len(sent) \in {1, 2}
        /\ sent[1].endpoint = "/fapi/v1/exchangeInfo"
        /\ sent[1].method = "GET"
        /\ ~sent[1].signed
        /\ Len(sent) = 2 =>
              /\ sent[2].endpoint = "/fapi/v2/account"
              /\ sent[2].method = "GET"
              /\ sent[2].signed
              /\ CallSucceeded(1)
        /\ pc = "done" =>
              /\ result \in {Ret(PyBool(TRUE)), Ret(PyBool(FALSE))}
              /\ result = Ret(PyBool(TRUE)) <=> (CallSucceeded(1) /\ CallSucceeded(2))
              /\ ~CallSucceeded(1) => Len(sent) = 1

\* the metadata call succeeded, the account call was refused: false is returned
C20_Witness ==
    /\ cmd.fn = "client.test_connection"
    /\ pc = "done"
    /\ Len(sent) = 2
    /\ CallSucceeded(1)
    /\ sent[2].answer.kind = "response"
    /\ sent[2].answer.status = 400
    /\ result = Ret(PyBool(FALSE))

\* the first attempt of request i was answered with a status the retry policy
\* does not list
FirstResponseUnlisted(i) ==
    /\ sent[i].first.kind = "response"
    /\ sent[i].first.status \notin StatusForcelist

\* C21: a request whose first response has a status outside {429, 500, 502, 503,
\* 504} is attempted exactly once and never retried: that response ends the
\* request, whether it is then classified as success or as an exchange error.
C21_UnlistedStatusNotRetried ==
    \A i \in DOMAIN sent :
        FirstResponseUnlisted(i) =>
            /\ sent[i].attempts = 1
            /\ sent[i].retry_total = RetryTotal
            /\ Met(sent[i].answer) = sent[i].first
            /\ Answered(i)

\* a 400 answer with an exchange error ended a request after one attempt
C21_Witness ==
    /\ pc = "done"
    /\ cmd.fn = "client.get_position_info"
    /\ Len(sent) = 1
    /\ sent[1].first = [kind |-> "response", status |-> 400]
    /\ sent[1].answer.body = ErrBody(-2010, "Margin is insufficient.")
    /\ sent[1].attempts = 1
    /\ IsDomainError(result)

UnsupportedMethod(method) ==
    Exc("ValueError", <<PartV("Unsupported HTTP method: ", PyStr(<<method>>))>>)

\* C22: a request whose method is not GET, POST or DELETE fails at once with an
\* unsupported-method error: no HTTP request is sent for it, nothing is retried,
\* and the error reaches the caller as it is; a supported method is sent.
C22_UnsupportedMethodIsFatal ==
    (cmd.fn = "client._make_request" /\ pc # "idle") =>
        IF cmd.args.method \in SupportedMethods
        THEN Len(sent) = 1 /\ sent[1].method = cmd.args.method
        ELSE /\ pc = "done"
             /\ sent = <<>>
             /\ frames = <<>>
             /\ result = Raise(UnsupportedMethod(cmd.args.method))

\* a PUT request was refused
C22_Witness ==
    /\ cmd.fn = "client._make_request"
    /\ cmd.args.method = "PUT"
    /\ pc = "done"
    /\ sent = <<>>
    /\ result.k = "raise"
    /\ result.exc.cls = "ValueError"

\* the boolean success indicator of a returned value, None when it carries none
SuccessIndicator(v) ==
    IF v.t = "OrderResult" THEN PyBool(v.success)
    ELSE IF v.t = "dict" THEN DictGet(v, "success", PyNone)
    ELSE PyNone

\* C23: each of the six OrderManager operations returns a value with a boolean
\* success indicator, true when the client call returned normally and false when
\* it raised a Domain Error (other than code -4046 in set_leverage).
C23_UniformSuccessIndicator ==
    \A i \in DOMAIN calls :
        calls[i].fn \in ManagerOps =>
            /\ calls[i].got.k = "ret" =>
                  /\ calls[i].out.k = "ret"
                  /\ SuccessIndicator(calls[i].out.v) = PyBool(TRUE)
            /\ (GotApiError(calls[i]) /\ ~IsLeverageUnchanged(calls[i])) =>
                  /\ calls[i].out.k = "ret"
                  /\ SuccessIndicator(calls[i].out.v) = PyBool(FALSE)

-----------------------------------------------------------------------------
(* validating again, signing, request construction *)

Revalidated == cmd.fn = "validate_cli_input" /\ result # NoResult

\* C24: validate is idempotent: validating the fields of a valid Order Intent again
\* succeeds with no error and yields an Intent equal to the original in every field.
C24_ValidateIdempotent ==
    Revalidated =>
        /\ result.k = "ret"
        /\ result.v.error = PyStr(<<>>)
        /\ result.v.order = cmd.args.order
        /\ result = vres

\* an Intent normalized from lower case and a padded symbol was validated again
C24_Witness ==
    /\ Revalidated
    /\ raw.symbol = PyStr(<<"b","t","c","u","s","d","t"," ">>)
    /\ raw.order_type = PyStr(<<"S","t","o","p","_","L","i","m","i","t">>)
    /\ raw.quantity = PyFloat(12, 4)
    /\ result.k = "ret"
    /\ result.v.order.symbol = BTCUSDT
    /\ result.v.order.order_type = STOP_LIMIT
    /\ result.v.order.quantity = PyFloat(12, 4)

SignedTwice == cmd.fn = "_generate_signature" /\ result # NoResult

\* C25: for the fixed secret, signing the same key/value parameters twice yields
\* the same signature, whatever the order in which they were inserted into the
\* mapping: the signed text is the entries sorted by key, written key=value and
\* joined with &.
C25_SignatureDeterminism ==
    SignedTwice =>
        /\ result.first = result.second
        /\ result.first = Hmac(ApiSecret, JoinPairs(SortedItems(raw.items)))
        /\ \A i \in 1..(Len(raw.items) - 1) :
              KeyRank(SortedItems(raw.items)[i].k) < KeyRank(SortedItems(raw.items)[i + 1].k)

\* four entries signed in their insertion order and in the reverse order
C25_Witness ==
    /\ SignedTwice
    /\ Len(raw.items) = 4
    /\ \A i \in 1..4 : cmd.args.params.items[i] = raw.items[5 - i]
    /\ raw.items # SortedItems(raw.items)
    /\ cmd.args.params.items # SortedItems(raw.items)
    /\ result.first = result.second

\* the pieces of text a value is written with: a mapping shows its keys and values
Texts(v) ==
    IF v.t = "dict"
    THEN Keys(v) \cup UNION {Range(Str(v.items[i].v)) : i \in DOMAIN v.items}
    ELSE Range(Str(v))

SecretText == ApiSecret.s[1]

\* C26: every outbound request, signed or not, has the API-key header and a
\* content-type header, and the secret appears in no header, in no URL, in no
\* request parameter and in no log message: it is only the key of the signature.
C26_SecretStaysPrivate ==
    \A i \in DOMAIN sent :
        /\ DictGet(sent[i].headers, "X-MBX-APIKEY", PyNone) = ApiKey
        /\ HasKey(sent[i].headers, "Content-Type")
        /\ SecretText \notin Texts(sent[i].headers)
        /\ SecretText \notin Range(sent[i].url)
        /\ SecretText \notin Texts(sent[i].params)
        /\ \A j \in DOMAIN RequestLog(sent[i]) :
              /\ RequestLog(sent[i])[j].text # SecretText
              /\ SecretText \notin Texts(RequestLog(sent[i])[j].arg)
        /\ sent[i].signed =>
              DictGet(sent[i].params, "signature", PyNone).key = ApiSecret

\* an unsigned and a signed request were sent by one command, both with the headers
C26_Witness ==
    /\ Len(sent) = 2
    /\ ~sent[1].signed
    /\ sent[2].signed
    /\ \A i \in {1, 2} : DictGet(sent[i].headers, "X-MBX-APIKEY", PyNone) = ApiKey
    /\ DictGet(sent[2].params, "signature", PyNone).key = ApiSecret
    /\ SecretText \notin Texts(sent[2].params)

-----------------------------------------------------------------------------
(* properties of place_order's result *)

\* place_order was resumed with a response it parsed into a successful result
PlacedSuccessfully(e) ==
    /\ e.fn = "mgr.place_order"
    /\ e.got.k = "ret"
    /\ e.got.v.t = "dict"
    /\ e.out.k = "ret"
    /\ e.out.v.success

\* the number a response field holds, 0 when the field is missing
FieldNumber(response, key) == float(DictGet(response, key, PyInt(0))).v

\* C27: on a successful placement the result's average price is the value the API
\* supplied when it supplied one; otherwise cumulative notional divided by
\* executed quantity when both are positive; otherwise absent. A response with
\* executedQty 0.0012, cumQuote 78.00014 and no avgPrice gives 78.00014 / 0.0012.
C27_AveragePrice ==
    /\ \A i \in DOMAIN calls :
          PlacedSuccessfully(calls[i]) =>
              IF HasKey(calls[i].got.v, "avgPrice")
              THEN calls[i].out.v.avg_price = float(DictGet(calls[i].got.v, "avgPrice", PyNone)).v
              ELSE IF /\ Positive(FieldNumber(calls[i].got.v, "executedQty"))
                      /\ Positive(FieldNumber(calls[i].got.v, "cumQuote"))
              THEN calls[i].out.v.avg_price = Quot(FieldNumber(calls[i].got.v, "cumQuote"),
                                                   FieldNumber(calls[i].got.v, "executedQty"))
              ELSE IsNone(calls[i].out.v.avg_price)
    /\ \A i \in DOMAIN calls :
          (calls[i].fn = "mgr.place_order" /\ calls[i].got = Ret(OrderBody)) =>
              /\ calls[i].out.k = "ret"
              /\ calls[i].out.v.success
              /\ calls[i].out.v.executed_qty = PyFloat(12, 4)
              /\ calls[i].out.v.avg_price = Quot(PyFloat(7800014, 5), PyFloat(12, 4))

\* the response of the example was parsed: the average price was derived
C27_Witness ==
    /\ cmd.fn = "mgr.place_order"
    /\ pc = "done"
    /\ Len(calls) = 1
    /\ calls[1].got = Ret(OrderBody)
    /\ result.k = "ret"
    /\ result.v.success
    /\ result.v.avg_price = Quot(PyFloat(7800014, 5), PyFloat(12, 4))

\* the operations that report a Domain Error through _format_api_error
Translating == {"mgr.place_order", "mgr.cancel_order"}

Annotated(text, code) == text \o <<PartV(" (Code: ", code)>>

\* C28: the user-facing message of a Domain Error is the table's message for its
\* code, annotated with the code, when the code is in the fixed table (and then
\* not the exchange's message); the exchange's own message annotated with the
\* code when the code is not in the table; the error's message alone when the
\* error has no code.
C28_ErrorTranslation ==
    \A i \in DOMAIN calls :
        (calls[i].fn \in Translating /\ GotApiError(calls[i])) =>
            /\ calls[i].out.k = "ret"
            /\ ~calls[i].out.v.success
            /\ calls[i].out.v.message.t = "str"
            /\ IF IsNone(calls[i].got.exc.code)
               THEN calls[i].out.v.message.s = calls[i].got.exc.msg
               ELSE IF calls[i].got.exc.code.n \in ErrorCodes
               THEN /\ calls[i].out.v.message.s
                          = Annotated(<<Part(ErrorMessage(calls[i].got.exc.code.n))>>,
                                      calls[i].got.exc.code)
                    /\ \A j \in DOMAIN calls[i].got.exc.msg :
                          calls[i].got.exc.msg[j] \notin Range(calls[i].out.v.message.s)
               ELSE calls[i].out.v.message.s
                        = Annotated(calls[i].got.exc.msg, calls[i].got.exc.code)

\* the exchange refused a placement with code -2010: the table's message is shown
C28_Witness ==
    /\ cmd.fn = "mgr.place_order"
    /\ pc = "done"
    /\ Len(calls) = 1
    /\ GotApiError(calls[1])
    /\ calls[1].got.exc.code = PyInt(-2010)
    /\ calls[1].got.exc.msg = MsgOf(PyStr(<<"Margin is insufficient.">>))
    /\ result.v.message.s = <<Part("Insufficient balance for this order."),
                              PartV(" (Code: ", PyInt(-2010))>>

\* the wire order type the API client expects for an internal order type
WireTypeOf(order_type) ==
    IF order_type = STOP_LIMIT THEN STOP ELSE order_type

\* C29: OrderManager.place_order passes wire type MARKET for MARKET, LIMIT for
\* LIMIT and STOP for STOP_LIMIT to the API client; for an order type with no
\* mapping it makes no client call and returns a failed Order Result with a
\* descriptive message instead of raising.
C29_OrderTypeMapping ==
    (cmd.fn = "mgr.place_order" /\ pc # "idle") =>
        IF cmd.args.order_input.order_type \in {MARKET, LIMIT, STOP_LIMIT}
        THEN /\ Len(sent) = 1
             /\ sent[1].endpoint = "/fapi/v1/order"
             /\ DictGet(sent[1].params, "type", PyNone)
                    = PyStr(WireTypeOf(cmd.args.order_input.order_type))
             /\ DictGet(sent[1].params, "type", PyNone) \in {PyStr(MARKET), PyStr(LIMIT), PyStr(STOP)}
        ELSE /\ pc = "done"
             /\ sent = <<>>
             /\ calls = <<>>
             /\ result.k = "ret"
             /\ result.v.t = "OrderResult"
             /\ ~result.v.success
             /\ result.v.message
                    = PyStr(<<PartV("Unsupported order type: ",
                                    PyStr(cmd.args.order_input.order_type))>>)

\* a STOP_LIMIT Intent was placed with wire type STOP
C29_Witness ==
    /\ cmd.fn = "mgr.place_order"
    /\ cmd.args.order_input.order_type = STOP_LIMIT
    /\ pc = "done"
    /\ DictGet(sent[1].params, "type", PyNone) = PyStr(STOP)
    /\ HasKey(sent[1].params, "stopPrice")
    /\ result.v.success

-----------------------------------------------------------------------------
(* the signed text and the transmitted text *)

\* the query string the session writes for a mapping: its entries in insertion
\* order, key=value joined with &
Transmitted(params) == JoinPairs(params.items)

\* C30: for every signed request the text that was signed is the transmitted
\* parameter string with the signature entry removed, the same key=value pairs in
\* the same order, so that a server recomputing the signature over the query
\* string it received obtains the signature that was sent.
C30_SignedTextIsTransmitted ==
    \A i \in DOMAIN sent :
        sent[i].signed =>
            /\ QueryString(sent[i].signed_input)
                   = Transmitted(Without(sent[i].params, "signature"))
            /\ DictGet(sent[i].params, "signature", PyNone)
                   = Hmac(ApiSecret, Transmitted(Without(sent[i].params, "signature")))

====
